---- MODULE Spec2Model ----
(***************************************************************************)
(* DL/T 645-2007 master station (esphome-component-dlt645): the frame      *)
(* codec, the BCD decoder, the identifier dispatch, the address learning,  *)
(* the request scheduler, the baud-rate cycling and the worker loop of     *)
(* src/dlt645.cpp, as a state machine.                                     *)
(*                                                                         *)
(* Bytes are integers 0..255; uint8_t arithmetic is taken modulo 256.      *)
(* C++ indexes from 0, TLA+ sequences from 1: At(buf, i) is buf[i] of the  *)
(* source.  A float is kept as the pair (num, dec) standing for the float  *)
(* nearest to num / 10^dec, num being the integer after its conversion to  *)
(* a 24-bit mantissa; -0.0 and 0.0 compare equal in C++ and are one value  *)
(* here.  Data identifiers stay below 2^31 (the width of TLC's integers);  *)
(* BCD fields have at most 4 bytes, for which uint32_t never wraps.        *)
(***************************************************************************)
EXTENDS Integers, Sequences, FiniteSets, TLC

VARIABLES
    \* --- configuration (dlt645.h setters, consumed before setup) ---
    power_ratio_,                   \* int power_ratio_{10}
    baud_rate_list_,                \* std::vector<int> baud_rate_list_
    current_baud_rate_index_,       \* size_t, 0-based
    \* --- worker task ---
    pc,                             \* position of dlt645_task_func in its loop
    uart_initialized_,
    current_request_type,
    total_power_query_count_,
    last_non_power_query_index_,
    switch_baud_rate_when_failed_,
    last_sent_data_identifier_,
    current_command_timeout_ms_,
    response_buffer_,
    uart_tx,                        \* the frame last written by uart_write_bytes
    \* --- address state ---
    meter_address_bytes_,
    device_address_discovered_,
    \* --- result cache and event group ---
    event_group_,                   \* set of raised EVENT_DI_* bits
    cached,                         \* the cached_* fields
    last_active_power_w_,
    power_direction_initialized_,
    reverse_power_warned,           \* the last decode called warning_reverse_power_callback_
    \* --- history kept for the properties ---
    np_hist,                        \* non-power requests returned, in order
    steady_calls,                   \* calls of get_next_event_index in steady state
    disc_timeouts,                  \* first-byte timeouts of discovery requests
    last_pass,                      \* how the last pass of process_uart_data ended
    prev_power,                     \* <<the last total-active-power sample decoded>>, or <<>>
    pending,                        \* voltages decoded since the consumer's last wait, and those before it
    \* --- host loop and task lifetime ---
    host_pc,                        \* position of process_dlt645_events in the host loop
    event_bits,                         \* its local event_bits
    callbacks,                      \* callbacks invoked by the last process_dlt645_events
    destroy_pc,                     \* position of destroy_dlt645_task
    task_running_,
    task_state,                     \* "none", "running" (dlt645_task_handle_ set), "exited", "deleted"
    drain_reads,                    \* reads made by the 20 ms loop of process_uart_data, modulo 2
    \* --- inputs and results of the pure functions ---
    fn_in,
    fn_out

cfgVars   == <<power_ratio_, baud_rate_list_, current_baud_rate_index_>>
schedVars == <<current_request_type, total_power_query_count_, last_non_power_query_index_>>
sendVars  == <<switch_baud_rate_when_failed_, last_sent_data_identifier_,
               current_command_timeout_ms_, uart_tx>>
addrVars  == <<meter_address_bytes_, device_address_discovered_>>
cacheVars == <<event_group_, cached, last_active_power_w_, power_direction_initialized_,
               reverse_power_warned>>
histVars  == <<np_hist, steady_calls, disc_timeouts, last_pass, prev_power, pending>>
hostVars  == <<host_pc, event_bits, callbacks, destroy_pc>>
taskVars  == <<task_running_, task_state, drain_reads>>
fnVars    == <<fn_in, fn_out>>
progVars == <<cfgVars, pc, uart_initialized_, schedVars, sendVars, response_buffer_,
              addrVars, cacheVars, histVars, hostVars, taskVars>>
vars == <<progVars, fnVars>>

-----------------------------------------------------------------------------
(* Wire constants *)

PREAMBLE == 254
START_DELIMITER == 104
END_DELIMITER == 22
SCRAMBLE_OFFSET == 51
CONTROL_READ == 17
CONTROL_READ_OK == 145
CONTROL_WRITE == 20
CONTROL_RELAY == 28
CONTROL_TIME_SYNC == 8
RELAY_TRIP == 26
RELAY_CLOSE == 28
CONTROL_ACK == 156
CONTROL_READ_ERROR_D1 == 209
CONTROL_READ_ERROR_B1 == 177
CONTROL_ERROR_DC == 220
CONTROL_ERROR_BC == 188
BROADCAST_99 == 153
BROADCAST_AA == 170

(* DLT645_DATA_IDENTIFIER *)
DEVICE_ADDRESS == 67109889
ACTIVE_POWER_TOTAL == 33751040
ENERGY_ACTIVE_TOTAL == 65536
VOLTAGE_A_PHASE == 33620224
CURRENT_A_PHASE == 33685760
POWER_FACTOR_TOTAL == 33947648
FREQUENCY == 41943042
ENERGY_REVERSE_TOTAL == 131072
DATETIME == 67109121
TIME_HMS == 67109122

Byte == 0..255
U8(x) == x % 256
At(buf, i) == buf[i + 1]
Min(a, b) == IF a < b THEN a ELSE b

RECURSIVE SumBytes(_, _, _)
SumBytes(buf, from, to) ==
    IF from >= to THEN 0 ELSE At(buf, from) + SumBytes(buf, from + 1, to)

Checksum_from_preamble(buf, from, to) == U8(SumBytes(buf, 0, to))

\* uint8_t checksum = 0; for (i = from; i < to; i++) checksum += buf[i];
Checksum(buf, from, to) == U8(SumBytes(buf, from, to))

-----------------------------------------------------------------------------
(* Scrambling *)

scramble_dlt645_data(data) == [i \in 1..Len(data) |-> U8(data[i] + SCRAMBLE_OFFSET)]

unscramble_dlt645_data_dropped(data) == data

unscramble_dlt645_data(data) == [i \in 1..Len(data) |-> U8(data[i] + 256 - SCRAMBLE_OFFSET)]

-----------------------------------------------------------------------------
(* Frame builder *)

\* (di & 0xFF), ((di >> 8) & 0xFF), ((di >> 16) & 0xFF), ((di >> 24) & 0xFF)
IdentifierBytes(data_identifier) ==
    << data_identifier % 256, (data_identifier \div 256) % 256,
       (data_identifier \div 65536) % 256, (data_identifier \div 16777216) % 256 >>

\* data_field[0] | (data_field[1] << 8) | (data_field[2] << 16) | (data_field[3] << 24)
IdentifierOf(data_field) ==
    data_field[1] + data_field[2] * 256 + data_field[3] * 65536 + data_field[4] * 16777216

build_dlt645_read_frame(address, data_identifier) ==
    LET di == IdentifierBytes(data_identifier)
        frame == <<PREAMBLE, PREAMBLE, START_DELIMITER>>
                 \o SubSeq(address, 1, Min(6, Len(address)))
                 \o <<START_DELIMITER, CONTROL_READ, 4>>
                 \o [i \in 1..4 |-> U8(di[i] + SCRAMBLE_OFFSET)]
        checksum == Checksum(frame, 2, Len(frame))
    IN  frame \o <<checksum, END_DELIMITER>>

build_dlt645_write_frame(address, data_identifier, write_data) ==
    LET di == IdentifierBytes(data_identifier)
        frame == <<PREAMBLE, PREAMBLE, PREAMBLE, PREAMBLE, START_DELIMITER>>
                 \o SubSeq(address, 1, Min(6, Len(address)))
                 \o <<START_DELIMITER, CONTROL_WRITE, U8(4 + Len(write_data))>>
                 \o [i \in 1..4 |-> U8(di[i] + SCRAMBLE_OFFSET)]
                 \o [i \in 1..Len(write_data) |-> U8(write_data[i] + SCRAMBLE_OFFSET)]
        checksum == Checksum(frame, 4, Len(frame))
    IN  frame \o <<checksum, END_DELIMITER>>

\* ((v / 10) << 4) | (v % 10)
ToBcd(v) == ((v \div 10) * 16) + (v % 10)

\* now: the local time read by the builder,
\* <<sec, min, hour, mday, month, year % 100, wday>>
build_dlt645_relay_control_frame(address, close_relay, now) ==
    LET data == <<2, 86, 52, 18, 0, 0, 0, 0, IF close_relay THEN RELAY_CLOSE ELSE RELAY_TRIP, 0>>
                \o [i \in 1..6 |-> ToBcd(now[i])]
        frame == <<PREAMBLE, PREAMBLE, PREAMBLE, PREAMBLE, START_DELIMITER>>
                 \o SubSeq(address, 1, Min(6, Len(address)))
                 \o <<START_DELIMITER, CONTROL_RELAY, 16>>
                 \o [i \in 1..16 |-> U8(data[i] + SCRAMBLE_OFFSET)]
        checksum == Checksum(frame, 4, Len(frame))
    IN  frame \o <<checksum, END_DELIMITER>>

\* now: the local time read by the builder, as above; the data field is
\* YY MM DD HH mm
build_dlt645_broadcast_time_sync_frame(address, now) ==
    LET data == <<ToBcd(now[6]), ToBcd(now[5]), ToBcd(now[4]), ToBcd(now[3]), ToBcd(now[2])>>
        frame == <<PREAMBLE, PREAMBLE, PREAMBLE, PREAMBLE, START_DELIMITER>>
                 \o SubSeq(address, 1, Min(6, Len(address)))
                 \o <<START_DELIMITER, CONTROL_TIME_SYNC, 5>>
                 \o [i \in 1..5 |-> U8(data[i] + SCRAMBLE_OFFSET)]
        checksum == Checksum(frame, 4, Len(frame))
    IN  frame \o <<checksum, END_DELIMITER>>

-----------------------------------------------------------------------------
(* Frame parser: the decisions of check_and_parse_dlt645_frame on a buffer *)

RECURSIVE SkipPreamble(_, _)
SkipPreamble(buf, frame_start) ==
    IF frame_start < Len(buf) /\ At(buf, frame_start) = PREAMBLE
    THEN SkipPreamble(buf, frame_start + 1)
    ELSE frame_start

Outcome(kind, address, control_code, data_field) ==
    [outcome |-> kind, address |-> address, control_code |-> control_code,
     data_field |-> data_field]

Rejected(kind) == Outcome(kind, <<>>, 0, <<>>)

ChecksumAccepted_unchecked(calculated_checksum, received_checksum) == TRUE

ChecksumAccepted(calculated_checksum, received_checksum) ==
    calculated_checksum = received_checksum

ControlCodeClass_any(control_code) ==
    IF control_code = CONTROL_ACK THEN "ControlAck" ELSE "Data"

ControlCodeClass_errors_as_data(control_code) ==
    IF control_code = CONTROL_ACK THEN "ControlAck"
    ELSE IF control_code \in {CONTROL_READ_OK, CONTROL_READ_ERROR_D1, CONTROL_READ_ERROR_B1,
                              CONTROL_ERROR_DC, CONTROL_ERROR_BC} THEN "Data"
    ELSE "UnknownControlCode"

ControlCodeClass(control_code) ==
    IF control_code \in {CONTROL_READ_ERROR_D1, CONTROL_READ_ERROR_B1} THEN "ReadError"
    ELSE IF control_code \in {CONTROL_ERROR_DC, CONTROL_ERROR_BC} THEN "ControlError"
    ELSE IF control_code # CONTROL_READ_OK /\ control_code # CONTROL_ACK
         THEN "UnknownControlCode"
    ELSE IF control_code = CONTROL_ACK THEN "ControlAck"
    ELSE "Data"

ParseFrame(buf) ==
    LET idx == SkipPreamble(buf, 0)
    IN
    IF idx >= Len(buf) \/ At(buf, idx) # START_DELIMITER THEN Rejected("InvalidPreamble")
    ELSE IF Len(buf) < idx + 12 THEN Rejected("NeedMoreData")
    ELSE IF idx + 7 >= Len(buf) \/ At(buf, idx + 7) # START_DELIMITER
         THEN Rejected("InvalidAddressStart")
    ELSE
    LET address == [i \in 1..6 |-> At(buf, idx + i)]
        control_code == At(buf, idx + 8)
        data_length == At(buf, idx + 9)
        class == ControlCodeClass(control_code)
        frame_total_length == idx + 10 + data_length + 2
    IN
    IF class # "Data" THEN Outcome(class, address, control_code, <<>>)
    ELSE IF Len(buf) < frame_total_length
         THEN Outcome("NeedMoreData", address, control_code, <<>>)
    ELSE IF At(buf, frame_total_length - 1) # END_DELIMITER
         THEN Outcome("InvalidTrailer", address, control_code, <<>>)
    ELSE IF ~ChecksumAccepted(Checksum(buf, idx, idx + 10 + data_length),
                              At(buf, idx + 10 + data_length))
         THEN Outcome("BadChecksum", address, control_code, <<>>)
    ELSE Outcome("Complete", address, control_code,
                 unscramble_dlt645_data([i \in 1..data_length |-> At(buf, idx + 10 + i - 1)]))

-----------------------------------------------------------------------------
(* BCD decoder *)

Float(num, dec) == IF num = 0 THEN [num |-> 0, dec |-> 0] ELSE [num |-> num, dec |-> dec]
FloatZero == Float(0, 0)
FloatNeg(f) == Float(0 - f.num, f.dec)
FloatIsNegative(f) == f.num < 0
\* f * 1000.0f
FloatTimes1000(f) == Float(f.num, f.dec - 3)

Ulp(n) ==
    IF n < 16777216 THEN 1 ELSE IF n < 33554432 THEN 2 ELSE IF n < 67108864 THEN 4
    ELSE IF n < 134217728 THEN 8 ELSE IF n < 268435456 THEN 16
    ELSE IF n < 536870912 THEN 32 ELSE IF n < 1073741824 THEN 64 ELSE 128

\* (float) int_value: round to nearest, ties to even, on a 24-bit mantissa
U32ToFloat(n) ==
    LET u == Ulp(n)
        r == n % u
        lo == n - r
    IN  IF 2 * r < u THEN lo
        ELSE IF 2 * r > u THEN lo + u
        ELSE IF (lo \div u) % 2 = 0 THEN lo ELSE lo + u

BcdValid(bcd_data) ==
    \A i \in 1..Len(bcd_data) : bcd_data[i] % 16 <= 9 /\ bcd_data[i] \div 16 <= 9

RECURSIVE BcdAccumulate(_, _, _)
BcdAccumulate(bcd_data, i, multiplier) ==
    IF i > Len(bcd_data) THEN 0
    ELSE (bcd_data[i] % 16) * multiplier + (bcd_data[i] \div 16) * (multiplier * 10)
         + (IF i = Len(bcd_data) THEN 0 ELSE BcdAccumulate(bcd_data, i + 1, multiplier * 100))

bcd_to_float(bcd_data, decimal_places) ==
    IF ~BcdValid(bcd_data) THEN FloatZero
    ELSE Float(U32ToFloat(BcdAccumulate(bcd_data, 1, 1)), decimal_places)

ClearSignBit(bcd_data) ==
    [bcd_data EXCEPT ![Len(bcd_data)] = bcd_data[Len(bcd_data)] % 128]

bcd_to_float_with_sign_unsigned(bcd_data, decimal_places) ==
    IF bcd_data = <<>> THEN FloatZero
    ELSE bcd_to_float(ClearSignBit(bcd_data), decimal_places)

bcd_to_float_with_sign(bcd_data, decimal_places) ==
    IF bcd_data = <<>> THEN FloatZero
    ELSE LET is_negative == bcd_data[Len(bcd_data)] >= 128
             result == bcd_to_float(ClearSignBit(bcd_data), decimal_places)
         IN  IF is_negative THEN FloatNeg(result) ELSE result

-----------------------------------------------------------------------------
(* The pure functions on bounded inputs: SpecCodec draws one input and      *)
(* applies the function it names.                                           *)

MaxBcdLen == 3

ADDR_A == <<18, 144, 120, 86, 52, 18>>          \* 12 90 78 56 34 12
ADDR_B == <<1, 0, 0, 0, 0, 0>>
ADDR_99 == <<153, 153, 153, 153, 153, 153>>     \* broadcast 99 x6
ADDR_AA == <<170, 170, 170, 170, 170, 170>>     \* broadcast AA x6
ADDR_99_PREFIX == <<153, 153, 1, 0, 0, 0>>      \* 99 99 01 00 00 00
ADDR_99_FIRST == <<153, 1, 0, 0, 0, 0>>         \* 99 01 00 00 00 00
ADDR_DELIMS == <<254, 104, 22, 104, 254, 22>>   \* FE 68 16 68 FE 16

CodecAddresses ==
    {ADDR_A, ADDR_B, ADDR_99, ADDR_AA, ADDR_99_PREFIX, ADDR_99_FIRST, ADDR_DELIMS}

KnownIdentifiers ==
    {DEVICE_ADDRESS, ACTIVE_POWER_TOTAL, ENERGY_ACTIVE_TOTAL, VOLTAGE_A_PHASE,
     CURRENT_A_PHASE, POWER_FACTOR_TOTAL, FREQUENCY, ENERGY_REVERSE_TOTAL, DATETIME,
     TIME_HMS}

\* 0, 0x7FCDFFCC (bytes that wrap when scrambled), 0x12345678,
\* 0x35E335E3 (bytes that scramble to 0x68 and 0x16)
CodecIdentifiers == KnownIdentifiers \cup {0, 2144206796, 305419896, 904082915}

\* 00 05 12 34 85 99 80 1A 9A F9
BcdBytes == {0, 5, 18, 52, 133, 153, 128, 26, 154, 249}

SeqsUpTo(S, n) == UNION {[1..k -> S] : k \in 1..n}

\* payloads of the width of a field: the voltage 34 12 (1 decimal) and
\* 4-byte energies (2 decimals), 78 56 34 12 = 12345678,
\* 17 72 77 16 = 16777217 = 2^24 + 1, 99 99 99 99
BcdFieldInputs ==
    { [fn |-> "bcd", bcd_data |-> <<52, 18>>, decimal_places |-> 1],
      [fn |-> "bcd", bcd_data |-> <<120, 86, 52, 18>>, decimal_places |-> 2],
      [fn |-> "bcd", bcd_data |-> <<23, 114, 119, 22>>, decimal_places |-> 2],
      [fn |-> "bcd", bcd_data |-> <<153, 153, 153, 153>>, decimal_places |-> 2] }

\* date WW DD MM YY = 04 10 10 25 and time HH mm SS = 23 59 59, as BCD
WriteInputs ==
    {[fn |-> "write_frame", address |-> a, data_identifier |-> DATETIME,
      write_data |-> <<4, 16, 16, 37>>] : a \in CodecAddresses}
    \cup {[fn |-> "write_frame", address |-> a, data_identifier |-> TIME_HMS,
            write_data |-> <<35, 89, 89>>] : a \in CodecAddresses}

\* local times at which the automations run
WallClock == { <<30, 15, 8, 10, 10, 25, 5>>, <<59, 59, 23, 31, 12, 99, 5>> }

CodecInputs ==
    BcdFieldInputs \cup WriteInputs \cup
    {[fn |-> "timed_frames", address |-> a, now |-> now] :
       a \in CodecAddresses, now \in WallClock} \cup
    {[fn |-> "scramble", data |-> <<x>>] : x \in Byte}
    \cup {[fn |-> "read_frame", address |-> a, data_identifier |-> di] :
            a \in CodecAddresses, di \in CodecIdentifiers}
    \cup {[fn |-> "bcd", bcd_data |-> b, decimal_places |-> d] :
            b \in SeqsUpTo(BcdBytes, MaxBcdLen), d \in {2, 4}}

\* The response a meter would give with the request's address and data:
\* control code 0x91 instead of 0x11, checksum recomputed.
AsResponse(frame) ==
    LET idx == SkipPreamble(frame, 0)
        body == [SubSeq(frame, 1, Len(frame) - 2) EXCEPT ![idx + 9] = CONTROL_READ_OK]
    IN  body \o <<Checksum(body, idx, Len(body)), END_DELIMITER>>

ApplyScramble ==
    /\ fn_in.fn = "scramble" /\ fn_out.fn = "none"
    /\ fn_out' = [fn |-> "scramble",
                  scrambled |-> scramble_dlt645_data(fn_in.data),
                  unscrambled |-> unscramble_dlt645_data(scramble_dlt645_data(fn_in.data))]
    /\ UNCHANGED <<progVars, fn_in>>

ApplyReadFrame ==
    /\ fn_in.fn = "read_frame" /\ fn_out.fn = "none"
    /\ LET frame == build_dlt645_read_frame(fn_in.address, fn_in.data_identifier)
       IN  fn_out' = [fn |-> "read_frame", frame |-> frame,
                      parsed |-> ParseFrame(frame),
                      parsed_response |-> ParseFrame(AsResponse(frame))]
    /\ UNCHANGED <<progVars, fn_in>>

ApplyWriteFrame ==
    /\ fn_in.fn = "write_frame" /\ fn_out.fn = "none"
    /\ fn_out' = [fn |-> "write_frame",
                  frame |-> build_dlt645_write_frame(fn_in.address, fn_in.data_identifier,
                                                     fn_in.write_data)]
    /\ UNCHANGED <<progVars, fn_in>>

\* the builders that stamp their frame with the local time
ApplyTimedFrames ==
    /\ fn_in.fn = "timed_frames" /\ fn_out.fn = "none"
    /\ fn_out' = [fn |-> "timed_frames",
                  trip |-> build_dlt645_relay_control_frame(fn_in.address, FALSE, fn_in.now),
                  close |-> build_dlt645_relay_control_frame(fn_in.address, TRUE, fn_in.now),
                  time_sync |-> build_dlt645_broadcast_time_sync_frame(fn_in.address,
                                                                       fn_in.now)]
    /\ UNCHANGED <<progVars, fn_in>>

ApplyBcd ==
    /\ fn_in.fn = "bcd" /\ fn_out.fn = "none"
    /\ fn_out' = [fn |-> "bcd",
                  signed |-> bcd_to_float_with_sign(fn_in.bcd_data, fn_in.decimal_places),
                  unsigned |-> bcd_to_float(fn_in.bcd_data, fn_in.decimal_places),
                  magnitude |-> bcd_to_float(ClearSignBit(fn_in.bcd_data),
                                             fn_in.decimal_places)]
    /\ UNCHANGED <<progVars, fn_in>>

-----------------------------------------------------------------------------
(* DLT645_REQUEST_TYPE and the request table dlt645_request_infos *)

READ_DEVICE_ADDRESS == 1
READ_ACTIVE_POWER_TOTAL == 2
READ_ENERGY_ACTIVE_TOTAL == 3
READ_VOLTAGE_A_PHASE == 4
READ_CURRENT_A_PHASE == 5
READ_POWER_FACTOR_TOTAL == 6
READ_FREQUENCY == 7
READ_ENERGY_REVERSE_TOTAL == 8
READ_DATE == 9
READ_TIME == 10
READ_POS_END == 10

NonPowerRequests == READ_ENERGY_ACTIVE_TOTAL..READ_TIME

RequestIdentifier(request_type) ==
    CASE request_type = READ_DEVICE_ADDRESS -> DEVICE_ADDRESS
      [] request_type = READ_ACTIVE_POWER_TOTAL -> ACTIVE_POWER_TOTAL
      [] request_type = READ_ENERGY_ACTIVE_TOTAL -> ENERGY_ACTIVE_TOTAL
      [] request_type = READ_VOLTAGE_A_PHASE -> VOLTAGE_A_PHASE
      [] request_type = READ_CURRENT_A_PHASE -> CURRENT_A_PHASE
      [] request_type = READ_POWER_FACTOR_TOTAL -> POWER_FACTOR_TOTAL
      [] request_type = READ_FREQUENCY -> FREQUENCY
      [] request_type = READ_ENERGY_REVERSE_TOTAL -> ENERGY_REVERSE_TOTAL
      [] request_type = READ_DATE -> DATETIME
      [] request_type = READ_TIME -> TIME_HMS

FRAME_TIMEOUT_MS == 1000
DEVICE_DISCOVERY_TIMEOUT_MS == 2000
DEFAULT_POWER_RATIO == 10
DefaultBaudRateList == <<1200, 2400, 4800, 9600>>

-----------------------------------------------------------------------------
(* Configuration setters of dlt645.h *)

Remove(list, k) == SubSeq(list, 1, k - 1) \o SubSeq(list, k + 1, Len(list))

MoveToFront_swap(list, rate) ==
    IF \E k \in 1..Len(list) : list[k] = rate
    THEN LET k == CHOOSE j \in 1..Len(list) : list[j] = rate
         IN  [list EXCEPT ![1] = rate, ![k] = list[1]]
    ELSE <<rate>> \o list

\* std::find, then std::rotate(begin, it, it + 1) or insert(begin, rate)
MoveToFront(list, rate) ==
    IF \E k \in 1..Len(list) : list[k] = rate
    THEN LET k == CHOOSE j \in 1..Len(list) :
                      list[j] = rate /\ \A m \in 1..(j - 1) : list[m] # rate
         IN  <<rate>> \o Remove(list, k)
    ELSE <<rate>> \o list

set_baud_rate(rate) ==
    /\ pc = "config"
    /\ baud_rate_list_' = MoveToFront(baud_rate_list_, rate)
    /\ current_baud_rate_index_' = 0
    /\ UNCHANGED <<power_ratio_, pc, uart_initialized_, schedVars, sendVars,
                   response_buffer_, addrVars, cacheVars, histVars, fnVars, hostVars, taskVars>>

set_power_ratio(ratio) ==
    /\ pc = "config"
    /\ power_ratio_' = ratio
    /\ UNCHANGED <<baud_rate_list_, current_baud_rate_index_, pc, uart_initialized_,
                   schedVars, sendVars, response_buffer_, addrVars, cacheVars, histVars,
                   fnVars, hostVars, taskVars>>

SetupAddress == ADDR_AA

\* setup(): the UART is initialised and the task created (otherwise the
\* component is marked failed and nothing runs)
setup ==
    /\ pc = "config"
    /\ meter_address_bytes_' = SetupAddress
    /\ device_address_discovered_' = FALSE
    /\ response_buffer_' = <<>>
    /\ last_sent_data_identifier_' = 0
    /\ current_baud_rate_index_' = 0
    /\ uart_initialized_' = TRUE
    /\ task_running_' = TRUE
    /\ task_state' = "running"
    /\ UNCHANGED drain_reads
    /\ pc' = "idle"
    /\ UNCHANGED <<power_ratio_, baud_rate_list_, schedVars, switch_baud_rate_when_failed_,
                   current_command_timeout_ms_, uart_tx, cacheVars, histVars, fnVars,
                   hostVars>>

-----------------------------------------------------------------------------
(* Request scheduler *)

NextNonPowerIndex(index) ==
    LET next_index == index + 1
    IN  IF next_index >= READ_POS_END THEN READ_VOLTAGE_A_PHASE ELSE next_index

PowerTurn_le(count, ratio) == count <= ratio

PowerTurn_first_always(count, ratio) == count < ratio \/ count = 1

\* if (this->total_power_query_count_ < this->power_ratio_)
PowerTurn(count, ratio) == count < ratio

get_next_event_index_forgetful ==
    IF total_power_query_count_ + 1 >= power_ratio_
    THEN [ret |-> READ_DEVICE_ADDRESS, count |-> 0, index |-> last_non_power_query_index_]
    ELSE [ret |-> READ_ACTIVE_POWER_TOTAL, count |-> total_power_query_count_ + 1,
          index |-> last_non_power_query_index_]

get_next_event_index_counting ==
    [ret |-> READ_DEVICE_ADDRESS, count |-> total_power_query_count_ + 1,
     index |-> last_non_power_query_index_]

\* the value returned and the fields after the call
get_next_event_index ==
    IF device_address_discovered_ = FALSE
    THEN [ret |-> READ_DEVICE_ADDRESS, count |-> total_power_query_count_,
          index |-> last_non_power_query_index_]
    ELSE IF PowerTurn(total_power_query_count_ + 1, power_ratio_)
    THEN [ret |-> READ_ACTIVE_POWER_TOTAL, count |-> total_power_query_count_ + 1,
          index |-> last_non_power_query_index_]
    ELSE [ret |-> last_non_power_query_index_, count |-> 0,
          index |-> NextNonPowerIndex(last_non_power_query_index_)]

-----------------------------------------------------------------------------
(* Transport *)

\* send_dlt645_frame with the UART initialised; written: uart_write_bytes took
\* the whole frame
send_dlt645_frame(frame, timeout_ms, written) ==
    /\ response_buffer_' = <<>>
    /\ uart_tx' = IF written THEN frame ELSE <<>>
    /\ current_command_timeout_ms_' = IF written THEN timeout_ms
                                      ELSE current_command_timeout_ms_

QueryAddress == IF meter_address_bytes_ = <<>> THEN ADDR_99 ELSE meter_address_bytes_

\* One pass of the loop of dlt645_task_func up to the call of process_uart_data
dlt645_task_request ==
    /\ pc = "idle"
    /\ task_state = "running"
    /\ task_running_
    /\ LET next == get_next_event_index
           data_identifier == RequestIdentifier(next.ret)
       IN  /\ current_request_type' = next.ret
           /\ total_power_query_count_' = next.count
           /\ last_non_power_query_index_' = next.index
           /\ IF data_identifier = DEVICE_ADDRESS
              THEN \* query_active_power_total()
                   /\ switch_baud_rate_when_failed_' = TRUE
                   /\ IF uart_initialized_
                      THEN /\ last_sent_data_identifier_' = ACTIVE_POWER_TOTAL
                           /\ \E written \in BOOLEAN :
                                send_dlt645_frame(
                                    build_dlt645_read_frame(QueryAddress, ACTIVE_POWER_TOTAL),
                                    FRAME_TIMEOUT_MS, written)
                      ELSE UNCHANGED <<last_sent_data_identifier_, response_buffer_, uart_tx,
                                       current_command_timeout_ms_>>
              ELSE /\ switch_baud_rate_when_failed_' = FALSE
                   /\ last_sent_data_identifier_' = data_identifier
                   /\ IF uart_initialized_
                      THEN \E written \in BOOLEAN :
                             send_dlt645_frame(
                                 build_dlt645_read_frame(QueryAddress, data_identifier),
                                 FRAME_TIMEOUT_MS, written)
                      ELSE UNCHANGED <<response_buffer_, uart_tx, current_command_timeout_ms_>>
    /\ pc' = "read"
    /\ UNCHANGED <<cfgVars, uart_initialized_, addrVars, cacheVars, fnVars, hostVars, taskVars>>

\* process_uart_data with the UART not initialised: returns at once
process_uart_data_no_uart ==
    /\ pc = "read"
    /\ task_state = "running"
    /\ ~uart_initialized_
    /\ pc' = "idle"
    /\ UNCHANGED <<cfgVars, uart_initialized_, schedVars, sendVars, response_buffer_,
                   addrVars, cacheVars, fnVars, hostVars, taskVars>>

CycleOnTimeout_always(switch) == TRUE

\* if (this->switch_baud_rate_when_failed_) cycle_to_next_baud_rate();
CycleOnTimeout(switch) == switch

NextBaudRateIndex_stuck(index, size) == IF index + 1 < size THEN index + 1 ELSE index

\* (current_baud_rate_index_ + 1) % baud_rate_list_.size()
NextBaudRateIndex(index, size) == (index + 1) % size

\* process_uart_data: no byte within current_command_timeout_ms_.
\* changed: change_uart_baud_rate reinstalled the driver
process_uart_data_timeout ==
    /\ pc = "read"
    /\ task_state = "running"
    /\ uart_initialized_
    /\ response_buffer_' = <<>>
    /\ IF CycleOnTimeout(switch_baud_rate_when_failed_)
       THEN /\ current_baud_rate_index_' =
                    NextBaudRateIndex(current_baud_rate_index_, Len(baud_rate_list_))
            /\ \E changed \in BOOLEAN : uart_initialized_' = changed
       ELSE UNCHANGED <<current_baud_rate_index_, uart_initialized_>>
    /\ pc' = "idle"
    /\ UNCHANGED <<power_ratio_, baud_rate_list_, schedVars, sendVars, addrVars, cacheVars,
                   fnVars, hostVars, taskVars>>

\* process_uart_data: a first byte arrived, and the bytes that follow it
\* until 20 ms of silence are appended to response_buffer_
process_uart_data_receive(rx) ==
    /\ pc = "read"
    /\ task_state = "running"
    /\ uart_initialized_
    /\ response_buffer_' = response_buffer_ \o rx
    /\ pc' = "parse"
    /\ UNCHANGED <<cfgVars, uart_initialized_, schedVars, sendVars, addrVars, cacheVars,
                   histVars, fnVars, hostVars, taskVars>>

\* The same read, one uart_read_bytes call a step.  The model keeps the first
\* MaxBufferLen bytes of response_buffer_: the loop reads bytes_read only.
MaxBufferLen == 3

KeepFirst(buf) == SubSeq(buf, 1, Min(Len(buf), MaxBufferLen))

\* uart_read_bytes(uart_port_, data, 1, timeout_ms) returned one byte
process_uart_data_first_byte(byte) ==
    /\ pc = "read"
    /\ task_state = "running"
    /\ uart_initialized_
    /\ response_buffer_' = KeepFirst(Append(response_buffer_, byte))
    /\ drain_reads' = 0
    /\ pc' = "drain"
    /\ UNCHANGED <<cfgVars, uart_initialized_, schedVars, sendVars, addrVars, cacheVars,
                   histVars, fnVars, hostVars, task_running_, task_state>>

\* uart_read_bytes(uart_port_, data, sizeof(data), 20 ms) returned chunk
process_uart_data_read_more(chunk) ==
    /\ pc = "drain"
    /\ task_state = "running"
    /\ response_buffer_' = KeepFirst(response_buffer_ \o chunk)
    /\ drain_reads' = 1 - drain_reads
    /\ UNCHANGED <<cfgVars, pc, uart_initialized_, schedVars, sendVars, addrVars, cacheVars,
                   histVars, fnVars, hostVars, task_running_, task_state>>

\* it returned nothing: break, then check_and_parse_dlt645_frame
process_uart_data_silence ==
    /\ pc = "drain"
    /\ task_state = "running"
    /\ pc' = "parse"
    /\ UNCHANGED <<cfgVars, uart_initialized_, schedVars, sendVars, response_buffer_,
                   addrVars, cacheVars, histVars, fnVars, hostVars, taskVars>>

-----------------------------------------------------------------------------
(* Identifier dispatch: parse_dlt645_data_by_identifier *)

InitialCache ==
    [active_power_w |-> FloatZero, energy_active_kwh |-> FloatZero,
     voltage_a_v |-> FloatZero, current_a_a |-> FloatZero, power_factor |-> FloatZero,
     frequency_hz |-> FloatZero, energy_reverse_kwh |-> FloatZero,
     datetime_str |-> <<>>, time_hms_str |-> <<>>,
     year |-> 0, month |-> 0, day |-> 0, weekday |-> 0,
     hour |-> 0, minute |-> 0, second |-> 0]

\* ((bcd >> 4) & 0x0F) * 10 + (bcd & 0x0F)
bcd_to_byte(bcd) == (bcd \div 16) * 10 + (bcd % 16)

\* The worker-side state a decode reads and writes
DecodeState ==
    [event_group |-> event_group_, cached |-> cached, last |-> last_active_power_w_,
     initialized |-> power_direction_initialized_, warned |-> FALSE]

ReversePowerWarning_every_negative(power_w, initialized, last) ==
    FloatIsNegative(power_w)

\* the paths of the power case that call warning_reverse_power_callback_
ReversePowerWarning(power_w, initialized, last) ==
    FloatIsNegative(power_w) /\ (~initialized \/ ~FloatIsNegative(last))

DecodeActivePower(st, actual_data) ==
    IF Len(actual_data) < 3 THEN st
    ELSE LET power_w == FloatTimes1000(bcd_to_float_with_sign(actual_data, 4))
             warn == ReversePowerWarning(power_w, st.initialized, st.last)
         IN  [event_group |-> st.event_group \cup {"ACTIVE_POWER_TOTAL"},
              cached |-> [st.cached EXCEPT !.active_power_w = power_w],
              last |-> power_w,
              initialized |-> TRUE,
              warned |-> warn]

DecodeFloat(st, actual_data, min_len, value, field, bit) ==
    IF Len(actual_data) < min_len THEN st
    ELSE [st EXCEPT !.cached = [st.cached EXCEPT ![field] = value],
                    !.event_group = st.event_group \cup {bit}]

DecodeDatetime(st, actual_data) ==
    IF Len(actual_data) = 4
    THEN LET week_day == bcd_to_byte(actual_data[1])
             day == bcd_to_byte(actual_data[2])
             month == bcd_to_byte(actual_data[3])
             year == bcd_to_byte(actual_data[4])
             is_valid == week_day <= 6 /\ day >= 1 /\ day <= 31
                         /\ month >= 1 /\ month <= 12 /\ year <= 99
             full_year == IF year < 50 THEN 2000 + year ELSE 1900 + year
         IN  IF is_valid
             THEN [st EXCEPT !.cached = [st.cached EXCEPT
                                    !.year = full_year, !.month = month, !.day = day,
                                    !.weekday = week_day + 1,
                                    !.datetime_str = <<"date", full_year, month, day, week_day>>],
                             !.event_group = st.event_group \cup {"DATETIME"}]
             ELSE [st EXCEPT !.cached = [st.cached EXCEPT
                                    !.datetime_str = <<"INVALID_WDMY", week_day, day, month, year>>],
                             !.event_group = st.event_group \cup {"DATETIME"}]
    ELSE IF Len(actual_data) >= 6
    THEN [st EXCEPT !.cached = [st.cached EXCEPT
                            !.datetime_str = <<"raw", actual_data[2], actual_data[1],
                                               actual_data[3], actual_data[4],
                                               actual_data[5], actual_data[6]>>],
                    !.event_group = st.event_group \cup {"DATETIME"}]
    ELSE st

DecodeTimeHms(st, actual_data) ==
    IF Len(actual_data) < 3 THEN st
    ELSE LET hour == bcd_to_byte(actual_data[1])
             minute == bcd_to_byte(actual_data[2])
             second == bcd_to_byte(actual_data[3])
         IN  [st EXCEPT !.cached = [st.cached EXCEPT
                                !.hour = hour, !.minute = minute, !.second = second,
                                !.time_hms_str = <<"hms", hour, minute, second>>],
                        !.event_group = st.event_group \cup {"TIME_HMS"}]

parse_dlt645_data_by_identifier_any_as_voltage(data_identifier, data_field) ==
    IF Len(data_field) <= 4 THEN DecodeState
    ELSE DecodeFloat(DecodeState, SubSeq(data_field, 5, Len(data_field)), 2,
                     bcd_to_float(SubSeq(data_field, 5, Len(data_field)), 1),
                     "voltage_a_v", "VOLTAGE_A_PHASE")

parse_dlt645_data_by_identifier_only_requested(data_identifier, data_field) ==
    IF Len(data_field) <= 4 \/ data_identifier # last_sent_data_identifier_
    THEN DecodeState
    ELSE DecodeFloat(DecodeState, SubSeq(data_field, 5, Len(data_field)), 2,
                     bcd_to_float(SubSeq(data_field, 5, Len(data_field)), 1),
                     "voltage_a_v", "VOLTAGE_A_PHASE")

parse_dlt645_data_by_identifier(data_identifier, data_field) ==
    LET st == DecodeState
    IN
    IF Len(data_field) <= 4 THEN st
    ELSE
    LET actual_data == SubSeq(data_field, 5, Len(data_field))
    IN
    CASE data_identifier = DEVICE_ADDRESS ->
           [st EXCEPT !.event_group = st.event_group \cup {"DEVICE_ADDRESS"}]
      [] data_identifier = ACTIVE_POWER_TOTAL -> DecodeActivePower(st, actual_data)
      [] data_identifier = ENERGY_ACTIVE_TOTAL ->
           DecodeFloat(st, actual_data, 4, bcd_to_float(actual_data, 2),
                       "energy_active_kwh", "ENERGY_ACTIVE_TOTAL")
      [] data_identifier = VOLTAGE_A_PHASE ->
           DecodeFloat(st, actual_data, 2, bcd_to_float(actual_data, 1),
                       "voltage_a_v", "VOLTAGE_A_PHASE")
      [] data_identifier = CURRENT_A_PHASE ->
           DecodeFloat(st, actual_data, 3, bcd_to_float_with_sign(actual_data, 3),
                       "current_a_a", "CURRENT_A_PHASE")
      [] data_identifier = POWER_FACTOR_TOTAL ->
           DecodeFloat(st, actual_data, 2, bcd_to_float_with_sign(actual_data, 3),
                       "power_factor", "POWER_FACTOR_TOTAL")
      [] data_identifier = FREQUENCY ->
           DecodeFloat(st, actual_data, 2, bcd_to_float(actual_data, 2),
                       "frequency_hz", "FREQUENCY")
      [] data_identifier = ENERGY_REVERSE_TOTAL ->
           DecodeFloat(st, actual_data, 4, bcd_to_float(actual_data, 2),
                       "energy_reverse_kwh", "ENERGY_REVERSE_TOTAL")
      [] data_identifier = DATETIME -> DecodeDatetime(st, actual_data)
      [] data_identifier = TIME_HMS -> DecodeTimeHms(st, actual_data)
      [] OTHER -> st

-----------------------------------------------------------------------------
(* Address learning and the parse step of the worker *)

SkipsAddress_none(address) == FALSE

\* if (address[0] != 0x99 || address[1] != 0x99): the frames whose address
\* is not looked at
SkipsAddress(address) ==
    ~(address[1] # BROADCAST_99 \/ address[2] # BROADCAST_99)

address_changed(address) ==
    IF Len(meter_address_bytes_) # 6 THEN TRUE
    ELSE \E i \in 1..6 : meter_address_bytes_[i] # address[i]

BufferAfterParse_kept_on_reject(outcome, buf) ==
    IF outcome = "Complete" THEN <<>> ELSE buf

\* only the two "need more data" returns leave response_buffer_ as it is
BufferAfterParse(outcome, buf) ==
    IF outcome = "NeedMoreData" THEN buf ELSE <<>>

\* check_and_parse_dlt645_frame on the bytes read in this pass
check_and_parse_dlt645_frame ==
    /\ pc = "parse"
    /\ task_state = "running"
    /\ LET p == ParseFrame(response_buffer_)
       IN  /\ response_buffer_' = BufferAfterParse(p.outcome, response_buffer_)
           /\ IF p.outcome = "Complete"
              THEN /\ LET st == IF Len(p.data_field) >= 4
                                THEN parse_dlt645_data_by_identifier(
                                         IdentifierOf(p.data_field), p.data_field)
                                ELSE DecodeState
                      IN  /\ event_group_' = st.event_group
                          /\ cached' = st.cached
                          /\ last_active_power_w_' = st.last
                          /\ power_direction_initialized_' = st.initialized
                          /\ reverse_power_warned' = st.warned
                   /\ IF ~SkipsAddress(p.address) /\ address_changed(p.address)
                      THEN /\ meter_address_bytes_' = p.address
                           /\ device_address_discovered_' = TRUE
                      ELSE UNCHANGED addrVars
              ELSE /\ reverse_power_warned' = FALSE
                   /\ UNCHANGED <<event_group_, cached, last_active_power_w_,
                                  power_direction_initialized_, addrVars>>
    /\ pc' = "idle"
    /\ UNCHANGED <<cfgVars, uart_initialized_, schedVars, sendVars, fnVars, hostVars, taskVars>>

-----------------------------------------------------------------------------
(* Task teardown *)

\* dlt645_task_func: while (component->task_running_) fails; the task clears
\* its handle and deletes itself
dlt645_task_exit ==
    /\ pc = "idle"
    /\ task_state = "running"
    /\ ~task_running_
    /\ task_state' = "exited"
    /\ UNCHANGED <<cfgVars, pc, uart_initialized_, schedVars, sendVars, response_buffer_,
                   addrVars, cacheVars, histVars, fnVars, hostVars, task_running_,
                   drain_reads>>

\* destroy_dlt645_task up to vTaskDelay(100 ms)
destroy_dlt645_task_begin ==
    /\ destroy_pc = "none"
    /\ task_state = "running"
    /\ task_running_' = FALSE
    /\ destroy_pc' = "delay"
    /\ UNCHANGED <<cfgVars, pc, uart_initialized_, schedVars, sendVars, response_buffer_,
                   addrVars, cacheVars, histVars, fnVars, host_pc, event_bits, callbacks,
                   task_state, drain_reads>>

\* destroy_dlt645_task after the delay: vTaskDelete of a task still holding
\* its handle, vEventGroupDelete, deinit_dlt645_uart
destroy_dlt645_task_finish ==
    /\ destroy_pc = "delay"
    /\ task_state' = IF task_state = "running" THEN "deleted" ELSE task_state
    /\ event_group_' = {}
    /\ uart_initialized_' = FALSE
    /\ destroy_pc' = "done"
    /\ UNCHANGED <<cfgVars, pc, schedVars, sendVars, response_buffer_, addrVars, cached,
                   last_active_power_w_, power_direction_initialized_,
                   reverse_power_warned, histVars, fnVars, host_pc, event_bits, callbacks,
                   task_running_, drain_reads>>

-----------------------------------------------------------------------------
(* Public actions, run by the host loop's automations *)

\* relay_trip_action at local time now
relay_trip_action(now) ==
    /\ IF /\ uart_initialized_
          /\ meter_address_bytes_ # <<>>
          /\ ~(Len(meter_address_bytes_) = 6 /\ meter_address_bytes_[1] = BROADCAST_99)
       THEN \E written \in BOOLEAN :
              send_dlt645_frame(
                  build_dlt645_relay_control_frame(meter_address_bytes_, FALSE, now),
                  FRAME_TIMEOUT_MS, written)
       ELSE UNCHANGED <<response_buffer_, uart_tx, current_command_timeout_ms_>>
    /\ UNCHANGED <<cfgVars, pc, uart_initialized_, schedVars, switch_baud_rate_when_failed_,
                   last_sent_data_identifier_, addrVars, cacheVars, hostVars, taskVars,
                   fnVars>>

-----------------------------------------------------------------------------
(* The consumer: process_dlt645_events, called from loop() *)

\* the table dlt645_events, in its order
EventTable ==
    << "DEVICE_ADDRESS", "ACTIVE_POWER_TOTAL", "ENERGY_ACTIVE_TOTAL", "VOLTAGE_A_PHASE",
       "CURRENT_A_PHASE", "POWER_FACTOR_TOTAL", "FREQUENCY", "ENERGY_REVERSE_TOTAL",
       "DATETIME", "TIME_HMS" >>

\* the call made for a bit: the identifier and the cached cells read for it
CallbackFor(bit) ==
    CASE bit = "DEVICE_ADDRESS" -> <<DEVICE_ADDRESS>>
      [] bit = "ACTIVE_POWER_TOTAL" -> <<ACTIVE_POWER_TOTAL, cached.active_power_w>>
      [] bit = "ENERGY_ACTIVE_TOTAL" -> <<ENERGY_ACTIVE_TOTAL, cached.energy_active_kwh>>
      [] bit = "VOLTAGE_A_PHASE" -> <<VOLTAGE_A_PHASE, cached.voltage_a_v>>
      [] bit = "CURRENT_A_PHASE" -> <<CURRENT_A_PHASE, cached.current_a_a>>
      [] bit = "POWER_FACTOR_TOTAL" -> <<POWER_FACTOR_TOTAL, cached.power_factor>>
      [] bit = "FREQUENCY" -> <<FREQUENCY, cached.frequency_hz>>
      [] bit = "ENERGY_REVERSE_TOTAL" -> <<ENERGY_REVERSE_TOTAL, cached.energy_reverse_kwh>>
      [] bit = "DATETIME" -> <<DATETIME, cached.year, cached.month, cached.day,
                               cached.weekday>>
      [] bit = "TIME_HMS" -> <<TIME_HMS, cached.hour, cached.minute, cached.second>>

RECURSIVE CallbacksFrom_twice(_, _)
CallbacksFrom_twice(i, bits) ==
    IF i > Len(EventTable) THEN <<>>
    ELSE (IF EventTable[i] \in bits
          THEN <<CallbackFor(EventTable[i]), CallbackFor(EventTable[i])>> ELSE <<>>)
         \o CallbacksFrom_twice(i + 1, bits)

CallbacksFrom_voltage_only(i, bits) ==
    IF EventTable[4] \in bits THEN <<CallbackFor(EventTable[4])>> ELSE <<>>

RECURSIVE CallbacksFrom(_, _)
CallbacksFrom(i, bits) ==
    IF i > Len(EventTable) THEN <<>>
    ELSE (IF EventTable[i] \in bits THEN <<CallbackFor(EventTable[i])>> ELSE <<>>)
         \o CallbacksFrom(i + 1, bits)

\* xEventGroupWaitBits(event_group_, ALL_EVENTS, pdTRUE, pdFALSE, 0)
process_dlt645_events_wait ==
    /\ pc # "config"
    /\ host_pc = "loop"
    /\ event_bits' = event_group_
    /\ event_group_' = {}
    /\ host_pc' = "dispatch"
    /\ UNCHANGED <<cfgVars, pc, uart_initialized_, schedVars, sendVars, response_buffer_,
                   addrVars, cached, last_active_power_w_, power_direction_initialized_,
                   reverse_power_warned, callbacks, destroy_pc, taskVars, fnVars>>

\* the loop over dlt645_events calling the callbacks of the bits taken
process_dlt645_events_dispatch ==
    /\ host_pc = "dispatch"
    /\ callbacks' = CallbacksFrom(1, event_bits)
    /\ host_pc' = "loop"
    /\ UNCHANGED <<cfgVars, pc, uart_initialized_, schedVars, sendVars, response_buffer_,
                   addrVars, cacheVars, event_bits, destroy_pc, taskVars, fnVars>>

-----------------------------------------------------------------------------
(* What the meter side can put on the line *)

ResponseFrame(preamble, address, control_code, data) ==
    LET body == <<START_DELIMITER>> \o address
                \o <<START_DELIMITER, control_code, Len(data)>>
                \o scramble_dlt645_data(data)
    IN  [i \in 1..preamble |-> PREAMBLE] \o body
        \o <<Checksum(body, 0, Len(body)), END_DELIMITER>>

DataResponse(address, data_identifier, payload) ==
    ResponseFrame(2, address, CONTROL_READ_OK, IdentifierBytes(data_identifier) \o payload)

POWER_NEGATIVE == <<86, 52, 146>>   \* 56 34 92: -12.3456 kW
POWER_POSITIVE == <<86, 52, 18>>    \* 56 34 12: 12.3456 kW
POWER_NEGATIVE_2 == <<0, 80, 128>>  \* 00 50 80: -0.5 kW
POWER_ZERO == <<0, 0, 0>>
POWER_MINUS_ZERO == <<0, 0, 128>>   \* 00 00 80: sign bit on a zero magnitude
VOLTAGE_2204 == <<4, 34>>           \* 04 22: 220.4 V
VOLTAGE_1234 == <<52, 18>>          \* 34 12: 123.4 V

\* frame with the byte at position k (from 1) replaced by value
Replaced(frame, k, value) == [frame EXCEPT ![k] = value]

\* DataResponse(ADDR_A, VOLTAGE_A_PHASE, VOLTAGE_2204), FE FE 68 A0..A5 68 91 06
\* .. CS 16, with its second 0x68 (byte 10), its control code (byte 11), its
\* checksum or its end delimiter replaced; a control error frame; the first
\* 12 bytes after the preamble of a read error frame declaring 4 data bytes
RxRejected ==
    LET frame == DataResponse(ADDR_A, VOLTAGE_A_PHASE, VOLTAGE_2204)
    IN  { Replaced(frame, 10, 0), Replaced(frame, 11, CONTROL_READ),
          Replaced(frame, Len(frame) - 1, 0), Replaced(frame, Len(frame), 0),
          ResponseFrame(2, ADDR_B, CONTROL_ERROR_DC, <<4>>),
          SubSeq(ResponseFrame(2, ADDR_B, CONTROL_READ_ERROR_D1, <<1, 2, 3, 4>>), 1, 14) }

\* frames that differ in their source address and in how far they parse
RxFrames ==
    { DataResponse(ADDR_A, VOLTAGE_A_PHASE, VOLTAGE_2204),
      DataResponse(ADDR_B, VOLTAGE_A_PHASE, VOLTAGE_2204),
      DataResponse(ADDR_99, VOLTAGE_A_PHASE, VOLTAGE_2204),
      DataResponse(ADDR_AA, VOLTAGE_A_PHASE, VOLTAGE_2204),
      DataResponse(ADDR_99_PREFIX, VOLTAGE_A_PHASE, VOLTAGE_2204),
      ResponseFrame(0, ADDR_B, CONTROL_ACK, <<>>),
      ResponseFrame(2, ADDR_A, CONTROL_READ_ERROR_D1, <<1>>),
      SubSeq(DataResponse(ADDR_A, VOLTAGE_A_PHASE, VOLTAGE_2204), 1, 10),
      DataResponse(ADDR_A, 305419896, VOLTAGE_2204),     \* identifier 0x12345678
      <<0>> }
    \cup RxRejected

\* the two well-formed 0x91 frames whose bytes get replaced
WellFormedFrames ==
    { DataResponse(ADDR_A, VOLTAGE_A_PHASE, VOLTAGE_2204),
      DataResponse(ADDR_B, ACTIVE_POWER_TOTAL, POWER_NEGATIVE) }

\* positions (from 1) of the data field and of the checksum byte of a frame
\* built by DataResponse: FE FE 68 A0..A5 68 C L data.. CS 16
DataAndChecksumPositions(frame) == 13..(Len(frame) - 1)

Corruptions(frame) ==
    UNION { { Replaced(frame, k, value) : value \in Byte \ {frame[k]} } :
              k \in DataAndChecksumPositions(frame) }

RxCorrupted == UNION { Corruptions(frame) : frame \in WellFormedFrames }

RxOne == { DataResponse(ADDR_A, VOLTAGE_A_PHASE, VOLTAGE_2204) }

\* 1A 22 is not BCD
RxVoltages ==
    { DataResponse(ADDR_A, VOLTAGE_A_PHASE, VOLTAGE_2204),
      DataResponse(ADDR_A, VOLTAGE_A_PHASE, VOLTAGE_1234),
      DataResponse(ADDR_A, VOLTAGE_A_PHASE, <<26, 34>>),
      DataResponse(ADDR_A, ACTIVE_POWER_TOTAL, POWER_POSITIVE) }

\* total-active-power responses of either sign, one a byte short and one a
\* byte long
RxPower ==
    { DataResponse(ADDR_A, ACTIVE_POWER_TOTAL, payload) :
        payload \in {POWER_POSITIVE, POWER_NEGATIVE, POWER_NEGATIVE_2, POWER_ZERO,
                     POWER_MINUS_ZERO, <<86, 52>>, <<86, 52, 18, 1>>} }
    \cup RxOne

-----------------------------------------------------------------------------
(* Specifications *)

MaxCalls == 24
MaxShortCalls == 3
MaxRxCalls == 2
MaxTimeouts == 5
MaxPending == 2

NoFn == [fn |-> "none"]
NoPass == [outcome |-> "None", address |-> <<>>]

\* The component as constructed (dlt645.h member initialisers), before setup
InitComponent ==
    /\ power_ratio_ = DEFAULT_POWER_RATIO
    /\ baud_rate_list_ = DefaultBaudRateList
    /\ current_baud_rate_index_ = 0
    /\ pc = "config"
    /\ uart_initialized_ = FALSE
    /\ current_request_type = READ_DEVICE_ADDRESS
    /\ total_power_query_count_ = 0
    /\ last_non_power_query_index_ = READ_ENERGY_ACTIVE_TOTAL
    /\ switch_baud_rate_when_failed_ = FALSE
    /\ last_sent_data_identifier_ = 0
    /\ current_command_timeout_ms_ = FRAME_TIMEOUT_MS
    /\ response_buffer_ = <<>>
    /\ uart_tx = <<>>
    /\ meter_address_bytes_ = <<>>
    /\ device_address_discovered_ = FALSE
    /\ event_group_ = {}
    /\ cached = InitialCache
    /\ last_active_power_w_ = FloatZero
    /\ power_direction_initialized_ = FALSE
    /\ reverse_power_warned = FALSE
    /\ np_hist = <<>>
    /\ steady_calls = 0
    /\ disc_timeouts = 0
    /\ last_pass = NoPass
    /\ prev_power = <<>>
    /\ pending = [decoded |-> <<>>, taken |-> <<>>]
    /\ host_pc = "loop"
    /\ event_bits = {}
    /\ callbacks = <<>>
    /\ destroy_pc = "none"
    /\ task_running_ = FALSE
    /\ task_state = "none"
    /\ drain_reads = 0

Init ==
    /\ InitComponent
    /\ fn_in = NoFn
    /\ fn_out = NoFn

(* The worker's steps with the history they leave *)

\* the request step, counting the steady-state calls of get_next_event_index
\* and recording the non-power requests it returns; at most max steady calls
CountedRequest(max) ==
    /\ steady_calls < max
    /\ dlt645_task_request
    /\ IF device_address_discovered_
       THEN /\ steady_calls' = steady_calls + 1
            /\ np_hist' = IF get_next_event_index.ret \in NonPowerRequests
                          THEN Append(np_hist, get_next_event_index.ret)
                          ELSE np_hist
       ELSE UNCHANGED <<steady_calls, np_hist>>
    /\ UNCHANGED <<disc_timeouts, last_pass, prev_power, pending>>

RequestAny == dlt645_task_request /\ UNCHANGED histVars

RequestSched == CountedRequest(MaxCalls)
RequestShort == CountedRequest(MaxShortCalls)
RequestRx == CountedRequest(MaxRxCalls)

NoUart ==
    /\ process_uart_data_no_uart
    /\ last_pass' = [outcome |-> "NoUart", address |-> <<>>]
    /\ UNCHANGED <<np_hist, steady_calls, disc_timeouts, prev_power, pending>>

Timeout ==
    /\ process_uart_data_timeout
    /\ last_pass' = [outcome |-> "Timeout", address |-> <<>>]
    /\ UNCHANGED <<np_hist, steady_calls, disc_timeouts, prev_power, pending>>

\* the timeout step, counting the timeouts of discovery requests
TimeoutBaud ==
    /\ current_request_type = READ_DEVICE_ADDRESS => disc_timeouts < MaxTimeouts
    /\ process_uart_data_timeout
    /\ last_pass' = [outcome |-> "Timeout", address |-> <<>>]
    /\ disc_timeouts' = IF current_request_type = READ_DEVICE_ADDRESS
                        THEN disc_timeouts + 1 ELSE disc_timeouts
    /\ UNCHANGED <<np_hist, steady_calls, prev_power, pending>>

Receive == \E rx \in RxFrames : process_uart_data_receive(rx)
ReceiveOne == \E rx \in RxOne : process_uart_data_receive(rx)
ReceiveCorrupted == \E rx \in RxCorrupted : process_uart_data_receive(rx)
ReceiveWellFormed == \E rx \in WellFormedFrames : process_uart_data_receive(rx)

Parse ==
    /\ check_and_parse_dlt645_frame
    /\ last_pass' = [outcome |-> ParseFrame(response_buffer_).outcome,
                     address |-> ParseFrame(response_buffer_).address]
    /\ UNCHANGED <<np_hist, steady_calls, disc_timeouts, prev_power, pending>>

\* the buffer holds a complete response carrying a total-active-power sample
PowerSampleIn(buf) ==
    LET p == ParseFrame(buf)
    IN  /\ p.outcome = "Complete"
        /\ Len(p.data_field) >= 7
        /\ IdentifierOf(p.data_field) = ACTIVE_POWER_TOTAL

\* the parse step, keeping the power sample it decoded
ParsePower ==
    /\ check_and_parse_dlt645_frame
    /\ last_pass' = [outcome |-> ParseFrame(response_buffer_).outcome,
                     address |-> ParseFrame(response_buffer_).address]
    /\ prev_power' = IF PowerSampleIn(response_buffer_)
                      THEN <<cached'.active_power_w>> ELSE prev_power
    /\ UNCHANGED <<np_hist, steady_calls, disc_timeouts, pending>>

\* the buffer holds a complete response carrying a phase-A voltage
VoltageSampleIn(buf) ==
    LET p == ParseFrame(buf)
    IN  /\ p.outcome = "Complete"
        /\ Len(p.data_field) >= 6
        /\ IdentifierOf(p.data_field) = VOLTAGE_A_PHASE

\* the parse step, keeping the voltages decoded since the consumer's last
\* wait: at most MaxPending of them
ParsePoll ==
    /\ Len(pending.decoded) < MaxPending
    /\ check_and_parse_dlt645_frame
    /\ last_pass' = [outcome |-> ParseFrame(response_buffer_).outcome,
                     address |-> ParseFrame(response_buffer_).address]
    /\ pending' = IF VoltageSampleIn(response_buffer_)
                   THEN [pending EXCEPT !.decoded = Append(@, cached'.voltage_a_v)]
                   ELSE pending
    /\ UNCHANGED <<np_hist, steady_calls, disc_timeouts, prev_power>>

PollWait ==
    /\ process_dlt645_events_wait
    /\ pending' = [decoded |-> <<>>, taken |-> pending.decoded]
    /\ UNCHANGED <<np_hist, steady_calls, disc_timeouts, last_pass, prev_power>>

PollDispatch ==
    /\ process_dlt645_events_dispatch
    /\ UNCHANGED histVars

ReceiveVoltages == \E rx \in RxVoltages : process_uart_data_receive(rx)

\* date responses, WW DD MM YY: Friday 10.10.25, Thursday 29.02.24, and the
\* date of a meter whose clock was never set
ReceiveDates ==
    \E payload \in {<<5, 16, 16, 37>>, <<4, 41, 2, 36>>, <<0, 0, 0, 0>>} :
       process_uart_data_receive(DataResponse(ADDR_A, DATETIME, payload))

\* The worker inside the DATETIME case of parse_dlt645_data_by_identifier,
\* after its stores to cached_year_ and cached_month_ and before its stores
\* to cached_day_ and cached_weekday_: the four cells are plain uint32_t
\* written one by one while the host loop may read them.
datetime_store_first_half ==
    /\ pc = "parse"
    /\ task_state = "running"
    /\ LET p == ParseFrame(response_buffer_)
       IN  /\ p.outcome = "Complete"
           /\ Len(p.data_field) = 8
           /\ IdentifierOf(p.data_field) = DATETIME
           /\ LET st == DecodeDatetime(DecodeState, SubSeq(p.data_field, 5, 8))
              IN  /\ st.cached.datetime_str[1] = "date"
                  /\ cached' = [cached EXCEPT !.year = st.cached.year,
                                              !.month = st.cached.month]
    /\ UNCHANGED <<cfgVars, pc, uart_initialized_, schedVars, sendVars, response_buffer_,
                   addrVars, event_group_, last_active_power_w_,
                   power_direction_initialized_, reverse_power_warned, histVars,
                   hostVars, taskVars, fnVars>>

\* a line that is never silent for 20 ms
LineNoise == { <<0>>, <<0, 104>> }

FirstByte == \E byte \in {0, 104} : process_uart_data_first_byte(byte)
ReadMore == \E chunk \in LineNoise : process_uart_data_read_more(chunk)

RelayTrip ==
    /\ \E now \in WallClock : relay_trip_action(now)
    /\ UNCHANGED histVars

ReceivePower == \E rx \in RxPower : process_uart_data_receive(rx)

(* Spec: the worker against a meter side that answers with any of RxFrames  *)
(* or not at all                                                            *)

MainRatios == {2}

Next ==
    \/ \E ratio \in MainRatios : set_power_ratio(ratio)
    \/ setup
    \/ RequestShort
    \/ NoUart
    \/ Timeout
    \/ Receive
    \/ Parse

Spec == Init /\ [][Next]_vars

(* SpecSched: the scheduler under several power ratios *)

SchedRatios == {0 - 1, 0, 1, 2, 3, 10}

NextSched ==
    \/ \E ratio \in SchedRatios : set_power_ratio(ratio)
    \/ setup
    \/ RequestSched
    \/ NoUart
    \/ Timeout
    \/ ReceiveOne
    \/ Parse

SpecSched == Init /\ [][NextSched]_vars

(* SpecBaud: the baud-rate list as configured by set_baud_rate, and the     *)
(* timeouts of discovery and of normal requests                             *)

BaudRates == {2400, 4800, 9600, 19200}

NextBaud ==
    \/ \E rate \in BaudRates : set_baud_rate(rate)
    \/ setup
    \/ RequestShort
    \/ NoUart
    \/ TimeoutBaud
    \/ ReceiveOne
    \/ Parse

SpecBaud == Init /\ [][NextBaud]_vars

(* SpecRx: a meter side that answers each request with a well-formed frame  *)
(* or with one of its single-byte corruptions                               *)

NextRx ==
    \/ setup
    \/ RequestRx
    \/ ReceiveWellFormed
    \/ ReceiveCorrupted
    \/ Parse

SpecRx == Init /\ [][NextRx]_vars

(* SpecPower: a meter side answering with total-active-power samples *)

NextPower ==
    \/ setup
    \/ RequestAny
    \/ ReceivePower
    \/ ParsePower

SpecPower == Init /\ [][NextPower]_vars

(* SpecPoll: the worker decoding voltages and the host loop polling *)

NextPoll ==
    \/ setup
    \/ RequestShort
    \/ ReceiveVoltages
    \/ ParsePoll
    \/ PollWait
    \/ PollDispatch

SpecPoll == Init /\ [][NextPoll]_vars

\* loop() is called again and again by the host's main loop, and calls
\* process_dlt645_events every time
SpecPollFair == SpecPoll /\ WF_vars(PollWait) /\ WF_vars(PollDispatch)

(* SpecDates: the worker decoding dates, store by store, and the host loop *)
(* polling                                                                *)

NextDates ==
    \/ setup
    \/ RequestShort
    \/ ReceiveDates
    \/ datetime_store_first_half
    \/ ParsePoll
    \/ PollWait
    \/ PollDispatch

SpecDates == Init /\ [][NextDates]_vars

(* SpecHost: the worker and the host loop's automations and teardown *)

\* the address test of the two write automations
WriteAddressRejected_as_relay(address) ==
    address = <<>> \/ (Len(address) = 6 /\ address[1] = BROADCAST_99)

WriteAddressRejected(address) ==
    \/ address = <<>>
    \/ (Len(address) = 6 /\ (address[1] = BROADCAST_99 \/ address[1] = BROADCAST_AA))

\* build_dlt645_write_datetime_frame: WW DD MM YY of the local time
set_datetime_action(now) ==
    /\ IF uart_initialized_ /\ ~WriteAddressRejected(meter_address_bytes_)
       THEN \E written \in BOOLEAN :
              send_dlt645_frame(
                  build_dlt645_write_frame(meter_address_bytes_, DATETIME,
                      <<ToBcd(now[7]), ToBcd(now[4]), ToBcd(now[5]), ToBcd(now[6])>>),
                  FRAME_TIMEOUT_MS, written)
       ELSE UNCHANGED <<response_buffer_, uart_tx, current_command_timeout_ms_>>
    /\ UNCHANGED <<cfgVars, pc, uart_initialized_, schedVars, switch_baud_rate_when_failed_,
                   last_sent_data_identifier_, addrVars, cacheVars, hostVars, taskVars,
                   fnVars>>

\* build_dlt645_write_time_frame: HH mm SS of the local time
set_time_action(now) ==
    /\ IF uart_initialized_ /\ ~WriteAddressRejected(meter_address_bytes_)
       THEN \E written \in BOOLEAN :
              send_dlt645_frame(
                  build_dlt645_write_frame(meter_address_bytes_, TIME_HMS,
                      <<ToBcd(now[3]), ToBcd(now[2]), ToBcd(now[1])>>),
                  FRAME_TIMEOUT_MS, written)
       ELSE UNCHANGED <<response_buffer_, uart_tx, current_command_timeout_ms_>>
    /\ UNCHANGED <<cfgVars, pc, uart_initialized_, schedVars, switch_baud_rate_when_failed_,
                   last_sent_data_identifier_, addrVars, cacheVars, hostVars, taskVars,
                   fnVars>>

\* a write automation run by the host, its result kept in last_pass
SetClock ==
    /\ \E now \in WallClock : set_datetime_action(now) \/ set_time_action(now)
    /\ last_pass' = [outcome |-> IF uart_initialized_
                                    /\ ~WriteAddressRejected(meter_address_bytes_)
                                 THEN "WriteAttempted" ELSE "WriteRejected",
                     address |-> meter_address_bytes_]
    /\ UNCHANGED <<np_hist, steady_calls, disc_timeouts, prev_power, pending>>

NextHost ==
    \/ setup
    \/ RequestShort
    \/ Timeout
    \/ ReceiveOne
    \/ Parse
    \/ RelayTrip
    \/ SetClock
    \/ destroy_dlt645_task_begin
    \/ dlt645_task_exit
    \/ destroy_dlt645_task_finish

SpecHost == Init /\ [][NextHost]_vars

(* SpecLive: the worker running forever against any line; the worker takes *)
(* steps as long as it can (it is a task of its own), the line owes nothing *)

WorkerStep ==
    \/ RequestAny
    \/ NoUart
    \/ Timeout
    \/ ReceiveOne
    \/ FirstByte
    \/ ReadMore
    \/ process_uart_data_silence
    \/ Parse

NextLive ==
    \/ \E ratio \in MainRatios : set_power_ratio(ratio)
    \/ setup
    \/ WorkerStep

SpecLive == Init /\ [][NextLive]_vars /\ WF_vars(setup) /\ WF_vars(WorkerStep)

(* SpecSteady: the worker running forever against a meter that answers *)
(* every request in one piece *)

WorkerSteady ==
    \/ RequestAny
    \/ ReceiveOne
    \/ Parse

NextSteady ==
    \/ \E ratio \in MainRatios : set_power_ratio(ratio)
    \/ setup
    \/ WorkerSteady

SpecSteady == Init /\ [][NextSteady]_vars /\ WF_vars(setup) /\ WF_vars(WorkerSteady)

(* SpecCodec: one input of CodecInputs, and the function it names applied   *)

InitCodec ==
    /\ InitComponent
    /\ fn_in \in CodecInputs
    /\ fn_out = NoFn

NextCodec ==
    \/ ApplyScramble
    \/ ApplyReadFrame
    \/ ApplyWriteFrame
    \/ ApplyTimedFrames
    \/ ApplyBcd

SpecCodec == InitCodec /\ [][NextCodec]_vars

-----------------------------------------------------------------------------
(* Properties of the request scheduler (SpecSched) *)

\* the positions of np_hist holding two successive returns of one request
SuccessiveReturns ==
    { <<i, j>> \in (1..Len(np_hist)) \X (1..Len(np_hist)) :
        /\ i < j
        /\ np_hist[i] = np_hist[j]
        /\ \A k \in (i + 1)..(j - 1) : np_hist[k] # np_hist[i] }

\* C1: in steady state the non-power requests returned by get_next_event_index
\* rotate through all 8 of READ_ENERGY_ACTIVE_TOTAL..READ_TIME: between two
\* successive returns of the same non-power request each of the other 7 is
\* returned exactly once.
C1_RotationThroughAllEight ==
    \A p \in SuccessiveReturns :
        /\ p[2] - p[1] = 8
        /\ { np_hist[k] : k \in (p[1] + 1)..(p[2] - 1) }
               = NonPowerRequests \ {np_hist[p[1]]}

\* C2: counting the steady-state calls of get_next_event_index from
\* total_power_query_count_ = 0, with power ratio N >= 2 the call numbered c
\* returns a non-power request if c is a multiple of N and
\* READ_ACTIVE_POWER_TOTAL otherwise, so c calls return c div N non-power
\* requests.
C2_EveryNthCallIsNonPower ==
    (steady_calls > 0 /\ power_ratio_ >= 2) =>
        /\ IF steady_calls % power_ratio_ = 0
           THEN current_request_type \in NonPowerRequests
           ELSE current_request_type = READ_ACTIVE_POWER_TOTAL
        /\ Len(np_hist) = steady_calls \div power_ratio_
        /\ total_power_query_count_ = steady_calls % power_ratio_

C2_Witness ==
    /\ power_ratio_ = 10
    /\ steady_calls = 20
    /\ Len(np_hist) = 2
    /\ current_request_type \in NonPowerRequests

-----------------------------------------------------------------------------
(* Properties of the address learning (Spec) *)

\* C3: after setup, the parse step on a valid response frame whose source
\* address is 99 x6 or AA x6 never takes device_address_discovered_ from
\* false to true.
C3_BroadcastNeverDiscovers ==
    [][ ( /\ pc = "parse"
          /\ ParseFrame(response_buffer_).outcome = "Complete"
          /\ ParseFrame(response_buffer_).address \in {ADDR_99, ADDR_AA}
          /\ ~device_address_discovered_ )
        => ~device_address_discovered_' ]_vars

C3_Witness ==
    /\ pc = "idle"
    /\ last_pass = [outcome |-> "Complete", address |-> ADDR_AA]
    /\ ~device_address_discovered_
    /\ "VOLTAGE_A_PHASE" \in event_group_

\* C4: whenever device_address_discovered_ is true, meter_address_bytes_ is
\* neither 99 x6 nor AA x6.
C4_LearnedAddressNeverBroadcast ==
    device_address_discovered_ => meter_address_bytes_ \notin {ADDR_99, ADDR_AA}

-----------------------------------------------------------------------------
(* Properties of the baud-rate cycling (SpecBaud) *)

\* C5: each first-byte timeout of a discovery request advances
\* current_baud_rate_index_ by one position cyclically: after k such timeouts
\* from index 0 over a list of length n the index is k mod n.
C5_IndexIsTimeoutsModLength ==
    current_baud_rate_index_ = disc_timeouts % Len(baud_rate_list_)

C5_Witness ==
    /\ baud_rate_list_ = <<9600, 4800, 2400, 1200>>
    /\ disc_timeouts = 2
    /\ current_baud_rate_index_ = 2
    /\ baud_rate_list_[current_baud_rate_index_ + 1] = 2400

\* C6: current_baud_rate_index_ changes only in the timeout of a request
\* issued while device_address_discovered_ was false (READ_DEVICE_ADDRESS);
\* the timeout of any other request, and every step taken once the address
\* is discovered, leaves it unchanged.
C6_NormalTimeoutKeepsBaudRate ==
    [][ (device_address_discovered_ \/ current_request_type # READ_DEVICE_ADDRESS
         \/ pc # "read")
        => current_baud_rate_index_' = current_baud_rate_index_ ]_vars

C6_Witness ==
    /\ pc = "idle"
    /\ last_pass.outcome = "Timeout"
    /\ device_address_discovered_
    /\ current_request_type = READ_ACTIVE_POWER_TOTAL
    /\ current_baud_rate_index_ = 1

-----------------------------------------------------------------------------
(* Properties of the codec (SpecCodec, SpecRx) *)

\* C7 as stated: the response parser, fed the bytes of
\* build_dlt645_read_frame(address, identifier), completes the parse and
\* recovers the identifier with an empty payload.
C7_RequestFrameParses ==
    fn_out.fn = "read_frame" =>
        /\ fn_out.parsed.outcome = "Complete"
        /\ Len(fn_out.parsed.data_field) = 4
        /\ IdentifierOf(fn_out.parsed.data_field) = fn_in.data_identifier

\* C7 amended: the response parser rejects the bytes of
\* build_dlt645_read_frame(address, identifier) for their control code 0x11;
\* the same frame with control code 0x91 and its checksum recomputed parses to
\* completion and recovers the address, the identifier and an empty payload.
C7_RequestFrameRejectedResponseParses ==
    fn_out.fn = "read_frame" =>
        /\ fn_out.parsed.outcome = "UnknownControlCode"
        /\ fn_out.parsed_response.outcome = "Complete"
        /\ fn_out.parsed_response.address = fn_in.address
        /\ Len(fn_out.parsed_response.data_field) = 4
        /\ IdentifierOf(fn_out.parsed_response.data_field) = fn_in.data_identifier

C7_Witness ==
    /\ fn_out.fn = "read_frame"
    /\ fn_in.address = ADDR_A
    /\ fn_in.data_identifier = ACTIVE_POWER_TOTAL
    /\ fn_out.frame = <<254, 254, 104, 18, 144, 120, 86, 52, 18, 104, 17, 4,
                        51, 51, 54, 53, 108, 22>>
    /\ fn_out.parsed.outcome = "UnknownControlCode"
    /\ fn_out.parsed_response.outcome = "Complete"

\* buf is frame with one byte of its data field or its checksum byte replaced
IsCorruptionOf(buf, frame) ==
    /\ Len(buf) = Len(frame)
    /\ \E k \in DataAndChecksumPositions(frame) :
          /\ buf[k] # frame[k]
          /\ \A j \in 1..Len(frame) : j # k => buf[j] = frame[j]

\* C8: the parse step on a well-formed 0x91 frame with one byte of its data
\* field or its checksum byte replaced rejects it on the checksum: no cache
\* cell, flag or callback, the address state unchanged, response_buffer_
\* cleared.
C8_SingleByteCorruptionRejected ==
    [][ ( /\ pc = "parse"
          /\ \E frame \in WellFormedFrames : IsCorruptionOf(response_buffer_, frame) )
        => /\ last_pass'.outcome = "BadChecksum"
           /\ UNCHANGED <<event_group_, cached, last_active_power_w_,
                          power_direction_initialized_, addrVars>>
           /\ ~reverse_power_warned'
           /\ response_buffer_' = <<>> ]_vars

C8_Witness ==
    /\ pc = "idle"
    /\ last_pass = [outcome |-> "BadChecksum", address |-> ADDR_B]
    /\ response_buffer_ = <<>>
    /\ meter_address_bytes_ = ADDR_A
    /\ device_address_discovered_
    /\ event_group_ = {"VOLTAGE_A_PHASE"}

\* C9: for every byte x, unscrambling the scrambled x gives x back, the
\* scrambled byte being (x + 0x33) mod 256.
C9_UnscrambleInvertsScramble ==
    fn_out.fn = "scramble" =>
        /\ fn_out.unscrambled = fn_in.data
        /\ fn_out.scrambled = <<(fn_in.data[1] + 51) % 256>>

C9_Witness ==
    /\ fn_out.fn = "scramble"
    /\ fn_in.data = <<230>>
    /\ fn_out.scrambled = <<25>>
    /\ fn_out.unscrambled = <<230>>

\* C10: for a non-empty b, if the top bit of its last byte is set and b with
\* that bit cleared is valid BCD, bcd_to_float_with_sign(b, d) is the negation
\* of bcd_to_float of b with the bit cleared; if the top bit is clear it
\* equals bcd_to_float(b, d).
C10_SignBitNegates ==
    fn_out.fn = "bcd" =>
        IF fn_in.bcd_data[Len(fn_in.bcd_data)] >= 128
        THEN BcdValid(ClearSignBit(fn_in.bcd_data))
                => /\ fn_out.signed.num = 0 - fn_out.magnitude.num
                   /\ fn_out.signed.dec = fn_out.magnitude.dec
        ELSE fn_out.signed = fn_out.unsigned

C10_Witness ==
    /\ fn_out.fn = "bcd"
    /\ fn_in.bcd_data = <<18, 52, 133>>
    /\ fn_in.decimal_places = 2
    /\ fn_out.signed = [num |-> 0 - 53412, dec |-> 2]
    /\ fn_out.magnitude = [num |-> 53412, dec |-> 2]

\* C11: for 1 to 4 bytes of valid BCD, bcd_to_float is the integer
\* sum of digit_i * 10^i (byte 0 first, low nibble before high nibble) scaled
\* by 10^-decimals.
C11_BcdIsDigitSumScaled ==
    ( /\ fn_out.fn = "bcd"
      /\ Len(fn_in.bcd_data) \in 1..4
      /\ BcdValid(fn_in.bcd_data) )
    => fn_out.unsigned = Float(BcdAccumulate(fn_in.bcd_data, 1, 1), fn_in.decimal_places)

-----------------------------------------------------------------------------
(* Properties of the decoders and of the consumer (SpecPower, SpecPoll) *)

\* C12: a parse step that decodes a total-active-power sample calls the
\* reverse-power callback if and only if the sample is negative and it is the
\* first sample decoded or the sample decoded before it was >= 0; every
\* sample raises the ACTIVE_POWER_TOTAL flag.
C12_ReversePowerOnTransition ==
    [][ (pc = "parse" /\ PowerSampleIn(response_buffer_))
        => /\ reverse_power_warned'
              <=> ( /\ cached'.active_power_w.num < 0
                    /\ (prev_power = <<>> \/ prev_power[1].num >= 0) )
           /\ "ACTIVE_POWER_TOTAL" \in event_group_' ]_vars

\* the parse step is about to decode -0.5 kW after having decoded -12.3456 kW
\* and called the callback for it
C12_Witness ==
    /\ pc = "parse"
    /\ response_buffer_ = DataResponse(ADDR_A, ACTIVE_POWER_TOTAL, POWER_NEGATIVE_2)
    /\ prev_power = <<[num |-> 0 - 123456, dec |-> 1]>>
    /\ last_active_power_w_ = [num |-> 0 - 123456, dec |-> 1]
    /\ reverse_power_warned

\* the calls of the voltage channel among calls
VoltageCalls(calls) == SelectSeq(calls, LAMBDA c : c[1] = VOLTAGE_A_PHASE)

C14_OnlyWorkerTouchesTransport ==
    [][ (pc \in {"read", "parse"} /\ pc' = pc)
        => UNCHANGED <<uart_tx, response_buffer_, current_command_timeout_ms_>> ]_vars

(* Progress of the worker (SpecLive) *)

\* C15: the 20 ms read loop of process_uart_data always ends.
C15_ReadPhaseEnds == (pc = "drain") ~> (pc # "drain")

\* C16: teardown never deletes the worker in the middle of an iteration: a
\* worker deleted by destroy_dlt645_task is between two iterations.
C16_WorkerNeverDeletedMidIteration ==
    task_state = "deleted" => pc \notin {"read", "drain", "parse"}

\* C17: build_dlt645_write_frame given a broadcast address (99 x6 or AA x6)
\* returns no write frame: nothing with control code 0x14 after the address.
C17_BroadcastWriteRejected ==
    ( /\ fn_out.fn = "write_frame"
      /\ fn_in.address \in {ADDR_99, ADDR_AA} )
    => (Len(fn_out.frame) < 13 \/ fn_out.frame[13] # CONTROL_WRITE)

(* Properties of address learning (Spec) *)

\* C18: the step on which the address is learned (device_address_discovered_
\* becomes true) raises the device-address event flag.
C18_LearningRaisesAddressFlag ==
    [][ (~device_address_discovered_ /\ device_address_discovered_')
        => "DEVICE_ADDRESS" \in event_group_' ]_vars

\* C19: unless the line never goes silent, the worker again and again sends a
\* request on an initialised UART and waits for its answer.
C19_WorkerKeepsSending ==
    <>[](pc = "drain") \/ []<>(pc = "read" /\ uart_initialized_)

(* Progress of the scheduler (SpecSteady) *)

\* C20: against a meter that answers every request, every one of the 8
\* non-power requests is issued again and again.
C20_EveryNonPowerRequestRecurs ==
    \A request_type \in NonPowerRequests :
        []<>(pc = "read" /\ current_request_type = request_type)

(* Properties of the scheduler's phases (Spec) *)

\* C21: once device_address_discovered_ is true it stays true, and no call of
\* get_next_event_index made from then on returns READ_DEVICE_ADDRESS.
C21_DiscoveryIsMonotonic ==
    [][ device_address_discovered_
        => /\ device_address_discovered_'
           /\ (pc = "idle" /\ pc' = "read")
                => current_request_type' # READ_DEVICE_ADDRESS ]_vars

\* a request issued after the address was learned
C21_Witness ==
    /\ device_address_discovered_
    /\ pc = "read"
    /\ steady_calls >= 2
    /\ current_request_type = READ_ENERGY_ACTIVE_TOTAL

\* C22: while device_address_discovered_ is false, a call of
\* get_next_event_index returns READ_DEVICE_ADDRESS and leaves
\* total_power_query_count_ and last_non_power_query_index_ unchanged.
C22_DiscoveryPhaseReturnsDiscovery ==
    [][ (~device_address_discovered_ /\ pc = "idle" /\ pc' = "read")
        => /\ current_request_type' = READ_DEVICE_ADDRESS
           /\ UNCHANGED <<total_power_query_count_, last_non_power_query_index_>> ]_vars

\* a second discovery request, issued after the first one timed out
C22_Witness ==
    /\ ~device_address_discovered_
    /\ pc = "read"
    /\ current_request_type = READ_DEVICE_ADDRESS
    /\ last_pass.outcome = "Timeout"

(* Properties of address learning on a parsed frame (Spec) *)

\* C23: parsing a valid 0x91 frame whose address is neither 99 x6 nor AA x6
\* and differs from the stored address stores that address and sets
\* device_address_discovered_.
C23_NonBroadcastAddressLearned ==
    [][ ( /\ pc = "parse" /\ pc' = "idle"
          /\ ParseFrame(response_buffer_).outcome = "Complete"
          /\ ParseFrame(response_buffer_).address \notin {ADDR_99, ADDR_AA}
          /\ ParseFrame(response_buffer_).address # meter_address_bytes_ )
        => /\ meter_address_bytes_' = ParseFrame(response_buffer_).address
           /\ device_address_discovered_' ]_vars

\* C24: parsing a valid acknowledgement (control code 0x9C, no data, correct
\* checksum and end delimiter) from an address that is neither 99 x6 nor
\* AA x6 and differs from the stored one stores that address and sets
\* device_address_discovered_.
C24_AcknowledgementAddressLearned ==
    [][ ( /\ pc = "parse" /\ pc' = "idle"
          /\ ParseFrame(response_buffer_).outcome = "ControlAck"
          /\ response_buffer_
               = ResponseFrame(0, ParseFrame(response_buffer_).address, CONTROL_ACK, <<>>)
          /\ ParseFrame(response_buffer_).address \notin {ADDR_99, ADDR_AA}
          /\ ParseFrame(response_buffer_).address # meter_address_bytes_ )
        => /\ meter_address_bytes_' = ParseFrame(response_buffer_).address
           /\ device_address_discovered_' ]_vars

(* Properties of the retry state (Spec) *)

\* C25: at the read of a discovery request (switch_baud_rate_when_failed_ set)
\* on an initialised UART, the first-byte wait current_command_timeout_ms_ is
\* the discovery budget device_discovery_timeout_ms_.
C25_DiscoveryWaitsDiscoveryBudget ==
    (pc = "read" /\ uart_initialized_ /\ switch_baud_rate_when_failed_)
    => current_command_timeout_ms_ = DEVICE_DISCOVERY_TIMEOUT_MS

(* Properties of response_buffer_ across iterations (Spec) *)

\* C26: the bytes of an incomplete frame (NeedMoreData) left in
\* response_buffer_ by the parser are still there when the next iteration
\* starts to read.
C26_IncompleteFrameKept ==
    [][ ( /\ pc = "idle" /\ pc' = "read"
          /\ last_pass.outcome = "NeedMoreData" )
        => response_buffer_' = response_buffer_ ]_vars

\* C27: a parse that ends Complete or in any rejection, and a first-byte
\* timeout, leave response_buffer_ empty and the worker at its next iteration.
C27_BufferEmptyAfterParseOrTimeout ==
    [][ /\ ( /\ pc = "parse" /\ pc' # "parse"
             /\ ParseFrame(response_buffer_).outcome # "NeedMoreData" )
           => (response_buffer_' = <<>> /\ pc' = "idle")
        /\ (pc = "read" /\ uart_initialized_ /\ pc' # "parse" /\ pc' # "read")
           => (response_buffer_' = <<>> /\ pc' = "idle") ]_vars

\* a checksum mismatch has just been rejected
C27_Witness ==
    /\ pc = "idle"
    /\ last_pass.outcome = "BadChecksum"
    /\ response_buffer_ = <<>>

\* C28: when at least 12 bytes follow the preamble, with 0x68 at both start
\* positions and a meter error control code (D1, B1, DC, BC), the parse
\* rejects the frame at once: the buffer is cleared whatever length the header
\* declares, and no cache cell, flag, stored address or discovery flag changes.
C28_MeterErrorRejectedAtOnce ==
    [][ ( /\ pc = "parse" /\ pc' # "parse"
          /\ LET idx == SkipPreamble(response_buffer_, 0)
             IN  /\ Len(response_buffer_) >= idx + 12
                 /\ At(response_buffer_, idx) = START_DELIMITER
                 /\ At(response_buffer_, idx + 7) = START_DELIMITER
                 /\ At(response_buffer_, idx + 8) \in
                      {CONTROL_READ_ERROR_D1, CONTROL_READ_ERROR_B1,
                       CONTROL_ERROR_DC, CONTROL_ERROR_BC} )
        => /\ response_buffer_' = <<>>
           /\ UNCHANGED <<cached, event_group_, meter_address_bytes_,
                          device_address_discovered_>> ]_vars

\* the 12-byte header of a read error frame from another meter has just been
\* rejected
C28_Witness ==
    /\ pc = "idle"
    /\ last_pass = [outcome |-> "ReadError", address |-> ADDR_B]
    /\ meter_address_bytes_ # ADDR_B
    /\ response_buffer_ = <<>>

(* Properties of the decode (SpecPower) *)

\* the payload length each identifier's data format has
DeclaredLength(data_identifier) ==
    CASE data_identifier = ACTIVE_POWER_TOTAL -> 3
      [] data_identifier = ENERGY_ACTIVE_TOTAL -> 4
      [] data_identifier = VOLTAGE_A_PHASE -> 2
      [] data_identifier = CURRENT_A_PHASE -> 3
      [] data_identifier = POWER_FACTOR_TOTAL -> 2
      [] data_identifier = FREQUENCY -> 2
      [] data_identifier = ENERGY_REVERSE_TOTAL -> 4
      [] data_identifier = DATETIME -> 4
      [] data_identifier = TIME_HMS -> 3

\* C29: a complete frame whose payload after the 4-byte identifier has not
\* exactly the identifier's declared length writes no cache cell and raises
\* no flag.
C29_OnlyDeclaredLengthDecodes ==
    [][ ( /\ pc = "parse" /\ pc' = "idle"
          /\ ParseFrame(response_buffer_).outcome = "Complete"
          /\ Len(ParseFrame(response_buffer_).data_field) >= 4
          /\ IdentifierOf(ParseFrame(response_buffer_).data_field)
               \in KnownIdentifiers \ {DEVICE_ADDRESS}
          /\ Len(ParseFrame(response_buffer_).data_field) - 4
               # DeclaredLength(IdentifierOf(ParseFrame(response_buffer_).data_field)) )
        => UNCHANGED <<cached, event_group_>> ]_vars

(* Properties of the decode of invalid digits (SpecPoll) *)

\* C30: a complete frame for a numeric identifier whose payload holds a nibble
\* greater than 9 (the sign bit of a signed field apart) changes no cache cell
\* and raises no flag.
C30_InvalidBcdDropped ==
    [][ ( /\ pc = "parse" /\ pc' = "idle"
          /\ ParseFrame(response_buffer_).outcome = "Complete"
          /\ Len(ParseFrame(response_buffer_).data_field) > 4
          /\ LET data_field == ParseFrame(response_buffer_).data_field
                 actual_data == SubSeq(data_field, 5, Len(data_field))
             IN  \/ /\ IdentifierOf(data_field) \in
                         {ENERGY_ACTIVE_TOTAL, VOLTAGE_A_PHASE, FREQUENCY,
                          ENERGY_REVERSE_TOTAL}
                    /\ ~BcdValid(actual_data)
                 \/ /\ IdentifierOf(data_field) \in
                         {ACTIVE_POWER_TOTAL, CURRENT_A_PHASE, POWER_FACTOR_TOTAL}
                    /\ ~BcdValid(ClearSignBit(actual_data)) )
        => UNCHANGED <<cached, event_group_>> ]_vars

(* Properties of the identifier dispatch (Spec) *)

\* C31: a valid 0x91 frame whose identifier is not one of the ten known
\* identifiers changes no cache cell and raises no flag.
C31_UnknownIdentifierDropped ==
    [][ ( /\ pc = "parse" /\ pc' = "idle"
          /\ ParseFrame(response_buffer_).outcome = "Complete"
          /\ Len(ParseFrame(response_buffer_).data_field) >= 4
          /\ IdentifierOf(ParseFrame(response_buffer_).data_field) \notin KnownIdentifiers )
        => UNCHANGED <<cached, event_group_, last_active_power_w_,
                       power_direction_initialized_>> ]_vars

\* a frame for identifier 0x12345678 has just been parsed to completion
C31_Witness ==
    /\ pc = "idle"
    /\ last_pass = [outcome |-> "Complete", address |-> ADDR_A]
    /\ cached.voltage_a_v = FloatZero
    /\ event_group_ = {}
    /\ meter_address_bytes_ = ADDR_A

\* C38: a valid 0x91 voltage response is decoded and cached as the voltage
\* whatever identifier was requested last: it sets cached.voltage_a_v and
\* raises the voltage flag also when last_sent_data_identifier_ is another
\* identifier.
C38_ResponseIdentifierDecides ==
    [][ ( /\ pc = "parse" /\ pc' = "idle"
          /\ ParseFrame(response_buffer_).outcome = "Complete"
          /\ Len(ParseFrame(response_buffer_).data_field) >= 6
          /\ IdentifierOf(ParseFrame(response_buffer_).data_field) = VOLTAGE_A_PHASE
          /\ last_sent_data_identifier_ # VOLTAGE_A_PHASE )
        => /\ "VOLTAGE_A_PHASE" \in event_group_'
           /\ cached'.voltage_a_v
                = bcd_to_float(SubSeq(ParseFrame(response_buffer_).data_field, 5,
                                      Len(ParseFrame(response_buffer_).data_field)), 1) ]_vars

\* 220.4 V cached from a response to the energy request
C38_Witness ==
    /\ pc = "idle"
    /\ last_sent_data_identifier_ = ENERGY_ACTIVE_TOTAL
    /\ last_pass.outcome = "Complete"
    /\ cached.voltage_a_v = [num |-> 2204, dec |-> 1]
    /\ "VOLTAGE_A_PHASE" \in event_group_

(* Properties of the frame builders (SpecCodec) *)

\* C32: every frame returned by the read, write, relay control and broadcast
\* time sync builders for a 6-byte address ends with the sum modulo 256 of
\* the bytes from the first 0x68 through the last data byte (the preamble
\* excluded), followed by 0x16.
C32_BuildersSealFrames ==
    LET Sealed(frame) ==
            LET n == Len(frame)
                first == CHOOSE i \in 1..n :
                            frame[i] = 104 /\ \A j \in 1..(i - 1) : frame[j] # 104
            IN  /\ \A j \in 1..(first - 1) : frame[j] = 254
                /\ frame[n] = 22
                /\ frame[n - 1] = SumBytes(frame, first - 1, n - 2) % 256
    IN  /\ fn_out.fn \in {"read_frame", "write_frame"} => Sealed(fn_out.frame)
        /\ fn_out.fn = "timed_frames"
             => Sealed(fn_out.trip) /\ Sealed(fn_out.close) /\ Sealed(fn_out.time_sync)

\* the relay and time sync frames for 12 90 78 56 34 12 at 23:59:59 on 31.12.99
C32_Witness ==
    /\ fn_out.fn = "timed_frames"
    /\ fn_in.address = ADDR_A
    /\ fn_in.now = <<59, 59, 23, 31, 12, 99, 5>>
    /\ Len(fn_out.trip) = 32 /\ fn_out.trip[13] = 28
    /\ Len(fn_out.time_sync) = 21 /\ fn_out.time_sync[13] = 8

(* Delivery by the consumer's poll (SpecPollFair) *)

\* C33: with the poll scheduled fairly, a flag raised by a decode is taken by
\* a poll, and that poll calls the channel's callback with the value cached
\* when it runs, which is the value of the latest decode; a poll clears
\* every flag it observed, makes one call per observed flag, and makes no
\* call when it observed none.
C33_DecodeReachesCallback ==
    /\ \A bit \in {"VOLTAGE_A_PHASE", "ACTIVE_POWER_TOTAL"} :
          (bit \in event_group_) ~> (host_pc = "dispatch" /\ bit \in event_bits)
    /\ (host_pc = "dispatch") ~> (host_pc = "loop")
    /\ [][ (host_pc = "loop" /\ host_pc' = "dispatch")
             => (event_bits' = event_group_ /\ event_group_' = {}) ]_vars
    /\ [][ (host_pc = "dispatch" /\ host_pc' = "loop")
             => /\ Len(callbacks') = Cardinality(event_bits)
                /\ "VOLTAGE_A_PHASE" \in event_bits
                      => /\ VoltageCalls(callbacks')
                              = << <<VOLTAGE_A_PHASE, cached.voltage_a_v>> >>
                         /\ pending.decoded # <<>>
                              => cached.voltage_a_v = pending.decoded[Len(pending.decoded)]
                         /\ (pending.decoded = <<>> /\ pending.taken # <<>>)
                              => cached.voltage_a_v = pending.taken[Len(pending.taken)]
                /\ "ACTIVE_POWER_TOTAL" \in event_bits
                      => \E i \in 1..Len(callbacks') :
                            callbacks'[i] = <<ACTIVE_POWER_TOTAL, cached.active_power_w>>
                /\ event_bits = {} => callbacks' = <<>> ]_vars

\* a poll that took the voltage and the power flag and made the two calls
C33_Witness ==
    /\ host_pc = "loop"
    /\ event_bits = {"VOLTAGE_A_PHASE", "ACTIVE_POWER_TOTAL"}
    /\ Len(callbacks) = 2
    /\ event_group_ = {}
    /\ pending.taken # <<>>

(* Properties of the relay and write automations (SpecHost) *)

\* C34: no relay control frame (control code 0x1C) is ever sent to a
\* broadcast address: relay_trip_action sends nothing while the stored
\* address is still the initial AA AA AA AA AA AA.
C34_NoRelayFrameToBroadcast ==
    ~( /\ Len(uart_tx) = 32
       /\ SubSeq(uart_tx, 1, 5) = <<254, 254, 254, 254, 104>>
       /\ uart_tx[13] = 28
       /\ SubSeq(uart_tx, 6, 11) \in {ADDR_AA, ADDR_99}
       /\ ~device_address_discovered_ )

\* C35: set_datetime_action and set_time_action send nothing, keep
\* response_buffer_ and keep current_command_timeout_ms_ whenever the stored
\* address is empty, 99 x6 or AA x6; no write frame (control code 0x14)
\* addressed to a broadcast address is ever on the line.
C35_WritesRejectBroadcast ==
    /\ [][ ( /\ meter_address_bytes_ \in {<<>>, ADDR_99, ADDR_AA}
             /\ \E now \in WallClock : set_datetime_action(now) \/ set_time_action(now) )
           => UNCHANGED <<uart_tx, response_buffer_, current_command_timeout_ms_>> ]_vars
    /\ [][ ( /\ meter_address_bytes_ \in {<<>>, ADDR_99, ADDR_AA}
             /\ last_pass'.outcome \in {"WriteAttempted", "WriteRejected"}
             /\ last_pass' # last_pass )
           => last_pass'.outcome = "WriteRejected" ]_vars
    /\ [] ~( /\ Len(uart_tx) >= 19
             /\ SubSeq(uart_tx, 1, 5) = <<254, 254, 254, 254, 104>>
             /\ uart_tx[13] = 20
             /\ SubSeq(uart_tx, 6, 11) \in {ADDR_AA, ADDR_99} )

\* a write automation refused while the stored address is AA x6, after
\* setup, with a read request of the worker still on the line
C35_Witness ==
    /\ uart_initialized_
    /\ last_pass = [outcome |-> "WriteRejected", address |-> ADDR_AA]
    /\ meter_address_bytes_ = ADDR_AA
    /\ uart_tx # <<>>
    /\ uart_tx[11] = 17

(* Properties of the date callback (SpecDates) *)

\* C36: every datetime callback delivers a (year, month, day, weekday) that
\* one single decode wrote: the four cells as they were initially, or as
\* the decode of one date payload leaves them.
C36_DateFromOneDecode ==
    [][ ( /\ host_pc = "dispatch" /\ host_pc' = "loop"
          /\ "DATETIME" \in event_bits
          /\ cached.datetime_str # <<>>
          /\ cached.datetime_str[1] = "date" )
        => \A i \in 1..Len(callbacks') :
              callbacks'[i][1] = DATETIME
                 => \E payload \in {<<5, 16, 16, 37>>, <<4, 41, 2, 36>>} :
                       LET c == DecodeDatetime(DecodeState, payload).cached
                       IN  SubSeq(callbacks'[i], 2, 5)
                             = <<c.year, c.month, c.day, c.weekday>> ]_vars

\* C37: every datetime callback carries a date that passed the validity
\* check: day 1..31, month 1..12 and weekday 1..7.
C37_DateCallbackIsValid ==
    \A i \in 1..Len(callbacks) :
       callbacks[i][1] = DATETIME
          => /\ callbacks[i][3] \in 1..12
             /\ callbacks[i][4] \in 1..31
             /\ callbacks[i][5] \in 1..7

(* Properties of the configuration setters (SpecBaud, SpecSched) *)

\* C39: after set_baud_rate(r) the list starts with r and the index is 0;
\* the list holds r exactly once and every candidate it held before, in
\* their previous relative order; a second set_baud_rate(r) leaves the list
\* unchanged.
C39_SetBaudRateMovesToFront ==
    /\ [][ \A r \in BaudRates :
             set_baud_rate(r)
                => /\ baud_rate_list_'[1] = r
                   /\ current_baud_rate_index_' = 0
                   /\ Cardinality({k \in 1..Len(baud_rate_list_') :
                                      baud_rate_list_'[k] = r}) = 1
                   /\ SelectSeq(baud_rate_list_', LAMBDA x : x # r)
                        = SelectSeq(baud_rate_list_, LAMBDA x : x # r) ]_vars
    /\ [] ( pc = "config"
              => /\ current_baud_rate_index_ = 0
                 /\ \A r \in BaudRates :
                      LET once == MoveToFront(baud_rate_list_, r)
                      IN  /\ once[1] = r
                          /\ Cardinality({k \in 1..Len(once) : once[k] = r}) = 1
                          /\ SelectSeq(once, LAMBDA x : x # r)
                               = SelectSeq(baud_rate_list_, LAMBDA x : x # r)
                          /\ MoveToFront(once, r) = once )

\* set_baud_rate(19200), then set_baud_rate(4800), from the default list
C39_Witness ==
    /\ pc = "config"
    /\ baud_rate_list_ = <<4800, 19200, 1200, 2400, 9600>>
    /\ current_baud_rate_index_ = 0

\* C40: with power_ratio_ <= 1 every call of the steady-state scheduler
\* returns a non-power request, never READ_ACTIVE_POWER_TOTAL, and
\* total_power_query_count_ is 0 after every call.
C40_RatioOneNeverPower ==
    (power_ratio_ <= 1 /\ steady_calls > 0)
       => /\ current_request_type # READ_ACTIVE_POWER_TOTAL
          /\ current_request_type \in NonPowerRequests
          /\ Len(np_hist) = steady_calls
          /\ \A i \in 1..Len(np_hist) : np_hist[i] # READ_ACTIVE_POWER_TOTAL
          /\ total_power_query_count_ = 0

\* nine steady-state calls with power_ratio_ = 1
C40_Witness ==
    /\ power_ratio_ = 1
    /\ steady_calls = 9
    /\ Len(np_hist) = 9
    /\ total_power_query_count_ = 0
    /\ pc = "read"

====
